---- MODULE Spec2Model ----
(***************************************************************************)
(* State-machine model of the menu plugin's session core:                  *)
(*   - MenuManager   (src/src/manager.ts): createSession, endSession, TTL  *)
(*   - BaseMenu      (src/src/menus/base.ts, first class in the file)      *)
(*   - PaginationMenu (src/unnamed/part_007, i.e. menus/pagination.ts)     *)
(* Every async method is split at its awaits: one action per synchronous   *)
(* block, so that other events can interleave exactly where the code       *)
(* suspends.                                                               *)
(*   - MenuQueue     (src/src/menu-queue.ts): menu:update, menu:close      *)
(*   - MenuPlugin    (src/src/plugin.ts): the router of UI events          *)
(*   - register      (src/src/registry.ts; the MenuManager of              *)
(*                    src/unnamed/part_001 that validates what it stores)  *)
(*   - MemoryQueueDriver (src/src/menu-queue.ts): publish, processQueue    *)
(* Seven specifications share the module:                                  *)
(*   - Spec    : the manager's session table, its timers and the objects   *)
(*               it constructs                                             *)
(*   - SpecPag : one pagination session from its construction on: items,   *)
(*               page count, page cache, cursors and the page builds in    *)
(*               flight                                                    *)
(*   - SpecMsg : Spec together with the update queue and the messages the  *)
(*               viewers see                                               *)
(*   - SpecEvt : the pagination session of SpecPag driven by the events    *)
(*               the router hands it and by menu:update messages           *)
(*   - SpecReg : the tables register fills                                 *)
(*   - SpecDrv : the in-memory queue driver                                *)
(*   - SpecSel : the page-jump selector of a built page                    *)
(***************************************************************************)
EXTENDS Integers, Sequences, FiniteSets, TLC

(***************************************************************************)
(* Bounds of the model                                                     *)
(***************************************************************************)
\* createSession invocations that may be in flight together, and session
\* objects constructed in one behaviour: the invocation in slot c
\* constructs object c (if it constructs one) and arms timer c
MaxCreates == 2
\* endSession invocations in one behaviour (explicit calls, menu:close
\* messages and timer callbacks together)
MaxEnds == 2
\* setUserPage calls in one behaviour
MaxNav == 1
\* largest number of items definition.fetch returns
MaxItems == 3
\* buildPage calls that may be in flight together
MaxBuilds == 2
\* calls made into one PaginationMenu in one behaviour (render, refetch,
\* navigation, attach)
MaxCalls == 3
\* menu:update messages in one behaviour
MaxMsgs == 1

Users == {"u1", "u2"}
\* the page indexes a caller passes to setUserPage
NavPages == {1}
Params == {"p1"}
Calls == 1..MaxCreates
Objs == Calls
EndCalls == 1..MaxEnds

(***************************************************************************)
(* Strings: a string is the sequence of its characters                     *)
(***************************************************************************)
\* RESERVED_ACTIONS (src/src/constants.ts)
RESERVED_ACTIONS ==
  { <<"f", "i", "r", "s", "t">>,
    <<"p", "r", "e", "v", "i", "o", "u", "s">>,
    <<"n", "e", "x", "t">>,
    <<"l", "a", "s", "t">>,
    <<"g", "o", "t", "o">>,
    <<"i", "n", "d", "i", "c", "a", "t", "o", "r">> }

\* INTERNAL_ACTION_PREFIX
INTERNAL_ACTION_PREFIX == <<"_", "_", "n", "a", "v", "_", "_">>

\* the action names a definition's `actions` map is keyed by: a plain name,
\* a name holding the index separator, a name that starts like a navigation
\* payload, and a reserved name
ActionBuy == <<"b", "u", "y">>
ActionBar == <<"a", "|", "b">>
ActionNav == INTERNAL_ACTION_PREFIX \o <<"n", "e", "x", "t">>
ActionNext == <<"n", "e", "x", "t">>

\* the key sets of the `actions` maps of the registered definitions
ActionMaps == {{ActionBuy, ActionBar, ActionNav}, {ActionBuy, ActionNext}}

\* PLUGIN_DEFAULTS.actionPrefix
actionPrefix == <<"m", "e", "n", "u">>

\* s.startsWith(p)
StartsWith(s, p) == Len(s) >= Len(p) /\ SubSeq(s, 1, Len(p)) = p

\* s.slice(n)
Slice(s, n) == SubSeq(s, n + 1, Len(s))

\* s.includes(c) for a single character c
Includes(s, c) == \E i \in 1..Len(s) : s[i] = c

\* s.indexOf(c) + 1, for a string that includes c
IndexOf(s, c) == CHOOSE i \in 1..Len(s) : s[i] = c /\ \A j \in 1..(i - 1) : s[j] # c

\* s.split(c): the pieces between the occurrences of c
RECURSIVE Split(_, _)
Split(s, c) ==
  IF ~Includes(s, c)
  THEN <<s>>
  ELSE <<SubSeq(s, 1, IndexOf(s, c) - 1)>> \o Split(Slice(s, IndexOf(s, c)), c)

\* the i-th variable of an array destructuring: <<x>> when the array has
\* an i-th element x, <<>> (undefined) when it has not
Element(parts, i) == IF i <= Len(parts) THEN <<parts[i]>> ELSE <<>>

DigitChars == <<"0", "1", "2", "3", "4", "5", "6", "7", "8", "9">>

IsDigit(c) == \E i \in 1..Len(DigitChars) : DigitChars[i] = c

DigitValue(c) == (CHOOSE i \in 1..Len(DigitChars) : DigitChars[i] = c) - 1

\* `${n}` for an integer n
RECURSIVE numberToString(_)
numberToString(n) ==
  IF n < 0 THEN <<"-">> \o numberToString(0 - n)
  ELSE IF n < 10 THEN <<DigitChars[n + 1]>>
  ELSE numberToString(n \div 10) \o <<DigitChars[(n % 10) + 1]>>

\* the number of digits s starts with
RECURSIVE LeadingDigits(_)
LeadingDigits(s) ==
  IF Len(s) = 0 \/ ~IsDigit(s[1]) THEN 0 ELSE 1 + LeadingDigits(Tail(s))

\* the value of a string of digits
RECURSIVE DigitsValue(_)
DigitsValue(s) ==
  IF Len(s) = 0 THEN 0
  ELSE DigitsValue(SubSeq(s, 1, Len(s) - 1)) * 10 + DigitValue(s[Len(s)])

\* leading white space dropped
RECURSIVE TrimStart(_)
TrimStart(s) == IF Len(s) > 0 /\ s[1] = " " THEN TrimStart(Tail(s)) ELSE s

\* the value isNaN() is true of, for a parseInt result kept as <<n>>
NaN == <<>>

\* parseInt(s, 10): white space, an optional sign, then the longest run of
\* digits; whatever follows the digits is ignored; NaN without a digit
parseInt(s) ==
  LET t == TrimStart(s)
      signed == Len(t) > 0 /\ t[1] \in {"-", "+"}
      body == IF signed THEN Tail(t) ELSE t
      n == LeadingDigits(body)
      v == DigitsValue(SubSeq(body, 1, n))
  IN IF n = 0 THEN NaN
     ELSE IF signed /\ t[1] = "-" THEN <<0 - v>> ELSE <<v>>

\* the absent value of a Map lookup (undefined)
NoEntry == [absent |-> TRUE]

\* sessionOptions.mode as a definition may carry it; "unset" is undefined
Modes == {"unset", "shared", "private", "locked"}

\* sessionOptions.ttl in milliseconds; 0 stands for undefined
TTLValues == {0, 100}

\* the menu definitions registered in a behaviour: one without mode and
\* ttl, and one per mode with a ttl, each with either map of actions and
\* with sessionOptions.ephemeral set or not
Definitions ==
  {d \in [mode : Modes, ttl : TTLValues, actions : ActionMaps,
          ephemeral : BOOLEAN] :
     (d.mode = "unset") = (d.ttl = 0)}

VARIABLES
  driver,         \* the MemoryQueueDriver: its queue, its flag, its loops
  menus,          \* the tables register fills: MenuManager.menus, MenuRegistry.menus
  defn,           \* the registered definition: sessionOptions and actions
  sessions,       \* MenuManager.sessions: contextKey -> session object (0 = none)
  sessionTimers,  \* MenuManager.sessionTimers: contextKey -> timer (0 = none)
  timers,         \* the setTimeout handles: timer -> "armed" (pending) or "idle"
  objs,           \* the constructed BaseMenu objects
  create,         \* the createSession invocations
  ends,           \* the endSession invocations
  navs,           \* number of setUserPage calls made so far
  msg,            \* the menu:update message in hand, or the last one handled
  msgs            \* menu:update messages handed over so far

\* the update queue's part of the state
qvars == <<msg, msgs>>

\* the sessions' part of the state
svars == <<defn, sessions, sessionTimers, timers, objs, create, ends, navs,
           qvars>>

\* the parts of the state the sessions never touch
rvars == <<driver, menus>>

mvars == <<rvars, svars>>

\* one PaginationMenu session, seen from inside
VARIABLES
  perPage,        \* definition.perPage
  preloadAll,     \* renderOptions.preloadAll
  items,          \* this.items.length: fetch hands back the first n entries
  pageCount,      \* this.pageCount
  pageCache,      \* this.pageCache: page index -> built page
  currentPage,    \* userSessions: user -> currentPage of the user's entry
  builds,         \* the buildPage calls in flight
  renderPc,       \* where the render() in flight is suspended
  refetchPc,      \* where the refetch() in flight is suspended
  refetched,      \* "yes": a refetch resolved and nothing was fetched since
  last,           \* what the navigation call made in the last step returned
  calls,          \* number of calls made into the menu so far
  handling        \* user -> the action handler awaited for the user's event

pvars == <<perPage, preloadAll, items, pageCount, pageCache, currentPage,
           builds, renderPc, refetchPc, refetched, last, calls, handling>>

vars == <<mvars, pvars>>

(***************************************************************************)
(* Definition accessors                                                    *)
(***************************************************************************)
\* const mode = definition.sessionOptions?.mode ?? "shared"
ResolveMode(d) == IF d.mode = "unset" THEN "shared" ELSE d.mode

\* definition.createKey(params): deterministic context key
CreateKey(p) == IF p = "p1" THEN "k1" ELSE "k2"

Keys == {CreateKey(p) : p \in Params}

(***************************************************************************)
(* BaseMenu                                                                *)
(***************************************************************************)
Blank ==
  [key |-> "", creatorId |-> "", userSessions |-> [u \in Users |-> NoEntry],
   isInitialized |-> FALSE, startCount |-> 0, endCount |-> 0]

\* new PaginationMenu(definition, contextKey, params, userId)
NewMenu(k, u) ==
  [key |-> k, creatorId |-> u, userSessions |-> [v \in Users |-> NoEntry],
   isInitialized |-> FALSE, startCount |-> 0, endCount |-> 0]

\* the UserSession literal createSession passes to addUserSession
NewUserSession(u) ==
  [currentPage |-> 0, messageId |-> "", ephemeral |-> defn.ephemeral]

\* hasUserSession gone wrong: only the creator counts as attached
hasUserSessionCreatorOnly(o, u) == objs[o].creatorId = u

hasUserSession(o, u) == objs[o].userSessions[u] # NoEntry

getCreatorId(o) == objs[o].creatorId

\* this.userSessions.set(userSession.userId, userSession)
addUserSession(m, u, us) == [m EXCEPT !.userSessions[u] = us]

\* session.currentPage = page, when the user has a session
setUserPage(m, u, page) ==
  IF m.userSessions[u] # NoEntry
  THEN [m EXCEPT !.userSessions[u].currentPage = page]
  ELSE m

\* canInteract(userId) for a session of the given mode: attached says
\* whether the user has a UserSession, isCreator whether the user is the
\* creator; any mode other than "shared" and "private" ends in `default`
canInteract(mode, attached, isCreator) ==
  CASE mode = "shared" -> attached
    [] mode = "private" -> isCreator
    [] OTHER -> FALSE

\* the synchronous part of initialize(): onSessionStart is invoked
initializeStart(m) ==
  IF m.isInitialized THEN m ELSE [m EXCEPT !.startCount = @ + 1]

\* the continuation of initialize() after onSessionStart resolved
initializeEnd(m) == [m EXCEPT !.isInitialized = TRUE]

\* the synchronous part of destroy(): onSessionEnd is invoked
destroyStart(m) == [m EXCEPT !.endCount = @ + 1]

(***************************************************************************)
(* MenuManager.createSession                                               *)
(***************************************************************************)
IdleCall == [pc |-> "idle", user |-> "", key |-> "", menu |-> 0,
             ret |-> 0, outcome |-> ""]

\* a slot is free before its first invocation and again once an invocation
\* that constructed nothing has settled; slots are taken in order
FreeCall(c) ==
  /\ \/ create[c].pc = "idle"
     \/ /\ create[c].pc = "done"
        /\ create[c].outcome \notin {"created", "startfailed"}
  /\ IF c = 1 THEN TRUE ELSE create[c - 1].pc # "idle"

\* the call resolves with value r
Resolve(c, u, k, r, what) ==
  create' = [create EXCEPT ![c] =
               [pc |-> "done", user |-> u, key |-> k, menu |-> r, ret |-> r,
                outcome |-> what]]

\* the call rejects
Reject(c, u, k, what) ==
  create' = [create EXCEPT ![c] =
               [pc |-> "done", user |-> u, key |-> k, menu |-> 0, ret |-> 0,
                outcome |-> what]]

\* the users are interchangeable: the first invocation is by u1
FirstIsU1(u) == (\A d \in Calls : create[d].pc = "idle") => u = "u1"

\* branch `if (existingMenu)` with mode "shared"; the await of
\* addUserSession only defers the return
SharedExisting(c, u, k, existingMenu) ==
  IF hasUserSession(existingMenu, u)
  THEN /\ Resolve(c, u, k, existingMenu, "reused")
       /\ UNCHANGED objs
  ELSE /\ objs' = [objs EXCEPT ![existingMenu] =
                     addUserSession(@, u, NewUserSession(u))]
       /\ Resolve(c, u, k, existingMenu, "attached")

\* the private branch gone wrong: the creator check is missing
PrivateExistingUnchecked(c, u, k, existingMenu) ==
  /\ Resolve(c, u, k, existingMenu, "reused")
  /\ UNCHANGED objs

\* branch `if (existingMenu)` with mode "private"
PrivateExisting(c, u, k, existingMenu) ==
  /\ IF getCreatorId(existingMenu) # u
     THEN Reject(c, u, k, "forbidden")
     ELSE Resolve(c, u, k, existingMenu, "reused")
  /\ UNCHANGED objs

\* registerAction gone wrong: the reserved names are not checked
registerActionUnchecked(actionName) == FALSE

\* registerAction(actionName, handler) throws: the name is reserved (the
\* keys of an object are distinct, so "already registered" cannot occur)
registerActionThrows(actionName) == actionName \in RESERVED_ACTIONS

\* the constructor registers every entry of definition.actions and throws
\* with the first registerAction that throws
ConstructorThrows(d) == \E a \in d.actions : registerActionThrows(a)

\* "Create new session": construct the menu and start initialize(); a
\* constructor that throws rejects the call on the spot
ConstructNew(c, u, k) ==
  IF ConstructorThrows(defn)
  THEN /\ Reject(c, u, k, "config")
       /\ UNCHANGED objs
  ELSE /\ objs' = [objs EXCEPT ![c] = initializeStart(NewMenu(k, u))]
       /\ create' = [create EXCEPT ![c] =
                       [IdleCall EXCEPT !.pc = "init", !.user = u, !.key = k,
                                        !.menu = c]]

\* createSession({menu, interaction: by user u, params: p}) from the
\* resolution of `await definition.createKey(params)` to the next await or
\* to the return; the part before it only reads the arguments
CreateCall(c, u, p) ==
  /\ FreeCall(c)
  /\ FirstIsU1(u)
  /\ LET k == CreateKey(p)
         existingMenu == sessions[k]
         mode == ResolveMode(defn)
     IN IF existingMenu # 0 /\ mode = "shared"
        THEN SharedExisting(c, u, k, existingMenu)
        ELSE IF existingMenu # 0 /\ mode = "private"
        THEN PrivateExisting(c, u, k, existingMenu)
        ELSE ConstructNew(c, u, k)
  /\ UNCHANGED <<rvars, defn, sessions, sessionTimers, timers, ends, navs, pvars,
                 qvars>>

\* setupTTL(sessionId, ttl): the timer armed by invocation c is timer c
setupTTL(k, t) ==
  /\ timers' = [timers EXCEPT ![t] = "armed"]
  /\ sessionTimers' = [sessionTimers EXCEPT ![k] = t]

\* initialize() resolved: attach the creator's UserSession, then
\* this.sessions.set(contextKey, menu); TTL; return menu
CreateStore(c) ==
  /\ create[c].pc = "init"
  /\ objs' = [objs EXCEPT ![create[c].menu] =
                addUserSession(initializeEnd(@), create[c].user,
                               NewUserSession(create[c].user))]
  /\ sessions' = [sessions EXCEPT ![create[c].key] = create[c].menu]
  /\ IF defn.ttl # 0
     THEN setupTTL(create[c].key, c)
     ELSE UNCHANGED <<timers, sessionTimers>>
  /\ Resolve(c, create[c].user, create[c].key, create[c].menu, "created")
  /\ UNCHANGED <<rvars, defn, ends, navs, pvars, qvars>>

\* `await menu.initialize()` gone wrong: the session was put in the table
\* before the await, and a rejection leaves it there
CreateInitFailedStored(c) ==
  /\ create[c].pc = "init"
  /\ sessions' = [sessions EXCEPT ![create[c].key] = create[c].menu]
  /\ Reject(c, create[c].user, create[c].key, "startfailed")
  /\ UNCHANGED <<rvars, defn, sessionTimers, timers, objs, ends, navs, pvars,
                 qvars>>

\* `await menu.initialize()` rejected (onSessionStart raised): createSession
\* rejects with the error; the constructed menu is dropped, not initialised
CreateInitFailed(c) ==
  /\ create[c].pc = "init"
  /\ Reject(c, create[c].user, create[c].key, "startfailed")
  /\ UNCHANGED <<rvars, defn, sessions, sessionTimers, timers, objs, ends,
                 navs, pvars, qvars>>

(***************************************************************************)
(* MenuManager.endSession and the TTL timer                                *)
(***************************************************************************)
\* src is 0 for an explicit call and t for the callback of timer t
IdleEnd == [pc |-> "idle", key |-> "", menu |-> 0, src |-> 0, outcome |-> ""]

\* clearTimeout(timer): a timer that has not fired yet never will
clearTimeout(tm, t) == [tm EXCEPT ![t] = "idle"]

\* endSession(sessionId) up to `await menu.destroy()`; tm is the state of
\* the timers when the invocation starts
endSessionStart(e, k, src, tm) ==
  LET menu == sessions[k]
      timer == sessionTimers[k]
  IN IF menu = 0
     THEN /\ ends' = [ends EXCEPT ![e] =
                        [IdleEnd EXCEPT !.pc = "done", !.key = k, !.src = src,
                                        !.outcome = "notfound"]]
          /\ timers' = tm
          /\ UNCHANGED <<objs, sessionTimers>>
     ELSE /\ ends' = [ends EXCEPT ![e] =
                        [IdleEnd EXCEPT !.pc = "destroy", !.key = k, !.src = src,
                                        !.menu = menu]]
          /\ objs' = [objs EXCEPT ![menu] = destroyStart(@)]
          /\ IF timer # 0
             THEN /\ timers' = clearTimeout(tm, timer)
                  /\ sessionTimers' = [sessionTimers EXCEPT ![k] = 0]
             ELSE /\ timers' = tm
                  /\ UNCHANGED sessionTimers

\* invocations are numbered in the order they start
NextEnd(e) ==
  /\ ends[e].pc = "idle"
  /\ IF e = 1 THEN TRUE ELSE ends[e - 1].pc # "idle"

\* an explicit endSession(k) call, or the delivery of menu:close for k
EndCall(e, k) ==
  /\ NextEnd(e)
  /\ endSessionStart(e, k, 0, timers)
  /\ UNCHANGED <<rvars, defn, sessions, create, navs, pvars, qvars>>

\* setTimeout(() => this.endSession(sessionId), ttl) fires
TimerFire(t, e) ==
  /\ timers[t] = "armed"
  /\ NextEnd(e)
  /\ endSessionStart(e, objs[t].key, t, [timers EXCEPT ![t] = "idle"])
  /\ UNCHANGED <<rvars, defn, sessions, create, navs, pvars, qvars>>

\* `await menu.destroy()` resolved: this.sessions.delete(sessionId)
EndDestroyed(e) ==
  /\ ends[e].pc = "destroy"
  /\ sessions' = [sessions EXCEPT ![ends[e].key] = 0]
  /\ ends' = [ends EXCEPT ![e].pc = "done", ![e].outcome = "ended"]
  /\ UNCHANGED <<rvars, defn, sessionTimers, timers, objs, create, navs,
                 pvars, qvars>>

(***************************************************************************)
(* Callers that reach a live session through getSession(key)               *)
(***************************************************************************)
\* menuManager.getSession(k)?.setUserPage(u, page)
SetUserPage(k, u, page) ==
  /\ navs < MaxNav
  /\ sessions[k] # 0
  /\ navs' = navs + 1
  /\ objs' = [objs EXCEPT ![sessions[k]] = setUserPage(@, u, page)]
  /\ UNCHANGED <<rvars, defn, sessions, sessionTimers, timers, create, ends,
                 pvars, qvars>>

(***************************************************************************)
(* The update queue (src/src/menu-queue.ts) and the viewers' messages      *)
(***************************************************************************)
\* no menu:update message was handed over yet
NoMsg ==
  [kind |-> "none", key |-> "", menu |-> 0, out |-> "", pending |-> {},
   result |-> [u \in Users |-> ""], raised |-> FALSE]

\* the queue driver hands the next message over once the handler of the
\* one before has resolved
QueueFree ==
  /\ msg.out \notin {"start", "broadcast"}
  /\ msgs < MaxMsgs
  /\ msgs' = msgs + 1

\* broadcastUpdate(): updateUserMessage is started for every viewer; those
\* without a messageId return at once, the others await renderForUser
BroadcastTo(m) ==
  {u \in Users : m.userSessions[u] # NoEntry /\ m.userSessions[u].messageId # ""}

\* getSession gone wrong: a key that is not in the table yields the object
\* constructed first
getSessionStale(k) == IF sessions[k] # 0 THEN sessions[k] ELSE 1

\* menuManager.getSession(sessionId): this.sessions.get(sessionId)
getSession(k) == sessions[k]

\* handleMenuUpdate(message) for contextKey k up to its first await: a
\* session that is not in the table is a miss; refresh.sessionData (rs)
\* runs onSessionStart again; then refetch() runs up to its broadcast
handleMenuUpdate(k, rs) ==
  /\ QueueFree
  /\ LET menu == getSession(k) IN
     IF menu = 0
     THEN /\ msg' = [NoMsg EXCEPT !.kind = "update", !.key = k, !.out = "miss"]
          /\ UNCHANGED objs
     ELSE IF rs
     THEN /\ msg' = [NoMsg EXCEPT !.kind = "update", !.key = k, !.menu = menu,
                                  !.out = "start"]
          /\ objs' = [objs EXCEPT ![menu].startCount = @ + 1]
     ELSE /\ msg' = [NoMsg EXCEPT !.kind = "update", !.key = k, !.menu = menu,
                                  !.out = "broadcast",
                                  !.pending = BroadcastTo(objs[menu])]
          /\ UNCHANGED objs
  /\ UNCHANGED <<rvars, defn, sessions, sessionTimers, timers, create, ends, navs,
                 pvars>>

\* handleMenuUpdate after `await definition.onSessionStart(params)`:
\* setSessionData, then refetch() up to its broadcast
MenuUpdateStarted ==
  /\ msg.out = "start"
  /\ msg' = [msg EXCEPT !.out = "broadcast",
                        !.pending = BroadcastTo(objs[msg.menu])]
  /\ UNCHANGED <<rvars, defn, sessions, sessionTimers, timers, objs, create, ends,
                 navs, msgs, pvars>>

\* what the delivery to a viewer runs into: "expired" is Date.now() past
\* tokenExpiresAt, "nottext" a channel that is not text-based, "ok" an edit
\* that succeeds, "gone" an edit that fails with Unknown Message (for a
\* webhook also Unknown Webhook, Invalid Webhook Token), "error" an edit or
\* a fetch that fails with any other error
EditOutcomes(ephemeral) ==
  IF ephemeral THEN {"expired", "ok", "gone", "error"}
  ELSE {"nottext", "ok", "gone", "error"}

\* what a delivery did: result is what became of the viewer's message,
\* deleted whether this.userSessions.delete(userId) ran, thrown whether the
\* method threw
Delivery(result, deleted, thrown) ==
  [result |-> result, deleted |-> deleted, thrown |-> thrown]

\* the expiry test gone wrong: an expired token is used for the edit
updateEphemeralMessageNoExpiry(outcome) ==
  CASE outcome = "gone" -> Delivery("gone", TRUE, FALSE)
    [] outcome = "error" -> Delivery("failed", FALSE, TRUE)
    [] OTHER -> Delivery("edited", FALSE, FALSE)

\* updateEphemeralMessage(client, userId, userSession, payload); the token
\* is there whenever the messageId is (updateMessageContext sets both)
updateEphemeralMessage(outcome) ==
  CASE outcome = "expired" -> Delivery("expired", TRUE, FALSE)
    [] outcome = "gone" -> Delivery("gone", TRUE, FALSE)
    [] outcome = "error" -> Delivery("failed", FALSE, TRUE)
    [] OTHER -> Delivery("edited", FALSE, FALSE)

\* updateNonEphemeralMessage(client, userId, userSession, payload)
updateNonEphemeralMessage(outcome) ==
  CASE outcome = "nottext" -> Delivery("skipped", FALSE, FALSE)
    [] outcome = "gone" -> Delivery("gone", TRUE, FALSE)
    [] outcome = "error" -> Delivery("failed", FALSE, TRUE)
    [] OTHER -> Delivery("edited", FALSE, FALSE)

\* updateUserMessage(client, u) after the page was rendered, for a viewer
\* broadcastUpdate started it for: the delivery runs inside try/catch, and
\* the catch logs what was thrown, so the promise handed to Promise.all
\* never rejects
updateUserMessage(u, outcome) ==
  /\ msg.out = "broadcast"
  /\ u \in msg.pending
  /\ LET userSession == objs[msg.menu].userSessions[u]
         ephemeral == IF userSession = NoEntry THEN defn.ephemeral
                      ELSE userSession.ephemeral
         d == IF ephemeral THEN updateEphemeralMessage(outcome)
              ELSE updateNonEphemeralMessage(outcome)
         rethrown == FALSE
     IN /\ outcome \in EditOutcomes(ephemeral)
        /\ msg' = [msg EXCEPT !.pending = @ \ {u}, !.result[u] = d.result,
                              !.raised = @ \/ (d.thrown /\ rethrown)]
        /\ objs' = IF d.deleted
                   THEN [objs EXCEPT ![msg.menu].userSessions[u] = NoEntry]
                   ELSE objs
  /\ UNCHANGED <<rvars, defn, sessions, sessionTimers, timers, create, ends, navs,
                 msgs, pvars>>

\* every viewer's update resolved: refetch and the handler resolve
MenuUpdateDone ==
  /\ msg.out = "broadcast"
  /\ msg.pending = {}
  /\ msg' = [msg EXCEPT !.out = "done"]
  /\ UNCHANGED <<rvars, defn, sessions, sessionTimers, timers, objs, create, ends,
                 navs, msgs, pvars>>

\* menuManager.getSession(k)?.updateMessageContext(u, response, interaction)
\* after the reply to u was sent: the entry of u learns its message
updateMessageContext(k, u) ==
  /\ getSession(k) # 0
  /\ objs[getSession(k)].userSessions[u] # NoEntry
  /\ objs' = [objs EXCEPT ![getSession(k)].userSessions[u].messageId =
                IF objs[getSession(k)].userSessions[u].ephemeral
                THEN "@original" ELSE "m"]
  /\ UNCHANGED <<rvars, defn, sessions, sessionTimers, timers, create, ends, navs,
                 qvars, pvars>>

(***************************************************************************)
(* PaginationMenu (src/unnamed/part_007)                                   *)
(***************************************************************************)
\* the values definition.perPage takes
PerPages == {1, 2}

\* page indexes that occur as cursors and cache keys (lastPage on a session
\* that was never rendered yields -1)
PageIdx == -1..MaxItems

\* pageCache.get(p) of a page that is not cached
NoPage == [absent |-> TRUE]

\* userSessions.get(u) of a user without a UserSession; the cursor of an
\* attached user is kept as <<currentPage>>
NoCursor == <<>>

\* Math.ceil(a / b) for integers a >= 0, b > 0
Ceil(a, b) == IF a % b = 0 THEN a \div b ELSE (a \div b) + 1

Max(a, b) == IF a >= b THEN a ELSE b
Min(a, b) == IF a <= b THEN a ELSE b

\* calculatePageCount gone wrong: Math.floor in place of Math.ceil
calculatePageCountFloor(len, pp) == Max(1, len \div Max(1, pp))

\* calculatePageCount():
\*   Math.max(1, Math.ceil(items.length / Math.max(1, perPage)))
calculatePageCount(len, pp) == Max(1, Ceil(len, Max(1, pp)))

\* the slice gone wrong: the end index is one short
PageSliceShort(p, len, pp) ==
  LET startIdx == p * pp
      endIdx == Min(startIdx + pp - 1, len)
  IN {i \in 0..(len - 1) : startIdx <= i /\ i < endIdx}

\* the global indexes buildPage(p) renders out of a collection of len items:
\* this.items.slice(startIdx, endIdx)
PageSlice(p, len, pp) ==
  LET startIdx == p * pp
      endIdx == Min(startIdx + pp, len)
  IN {i \in 0..(len - 1) : startIdx <= i /\ i < endIdx}

\* session?.currentPage ?? 0
getUserPage(u) == IF currentPage[u] = NoCursor THEN 0 ELSE currentPage[u][1]

\* setUserPage gone wrong: the page is written to every viewer's entry
setCursorOfAll(cp, u, page) ==
  [v \in Users |-> IF cp[v] # NoCursor THEN <<page>> ELSE cp[v]]

\* setUserPage(u, page) on the cursors cp
setCursor(cp, u, page) ==
  IF cp[u] # NoCursor THEN [cp EXCEPT ![u] = <<page>>] ELSE cp

Attached == {u \in Users : currentPage[u] # NoCursor}

\* a buildPage(p) call suspended at `await this.renderTitle()`
NewBuild(p) == [idx |-> p, phase |-> "title", len |-> 0]

\* preloadAllPages(): buildPage(i) for every page, cached or not
PreloadBuilds(pc) == {NewBuild(p) : p \in 0..(pc - 1)}

\* getPage(p) for each p in ps, against the cache pc: the pages that are
\* not cached start a build
StartBuilds(ps, pc) == {NewBuild(p) : p \in {q \in ps : pc[q] = NoPage}}

\* what the call made in a step hands back to its caller
Result(op, u, arg, out) == [op |-> op, out |-> out]

\* a step that is no navigation call hands nothing back
NoCall == last' = Result("none", "", 0, "")

\* no navigation controls: renderNavigationControls returned null
NoControls == <<>>

\* renderNavigationControls(pageNumber) with this.pageCount = pc: null, or
\* the `disabled` flag of each of the four buttons
renderNavigationControls(pageNumber, pc) ==
  IF pc <= 1 THEN NoControls
  ELSE LET canPrev == pageNumber > 0
           canNext == pageNumber < pc - 1
       IN <<[first |-> ~canPrev, previous |-> ~canPrev,
             next |-> ~canNext, last |-> ~canNext]>>

\* the page a build hands back: the slice of the collection it read, and
\* the navigation controls rendered once the items are
BuiltPage(b) ==
  [len |-> b.len, nav |-> renderNavigationControls(b.idx, pageCount)]

\* buildPage resumed after the title: it reads this.items and slices its
\* page; each item of the slice is an `await renderItem`, and without an
\* item the page is finished in the same step
BuildCapture(b) ==
  /\ b \in builds
  /\ b.phase = "title"
  /\ IF PageSlice(b.idx, items, perPage) = {}
     THEN /\ builds' = builds \ {b}
          /\ pageCache' = [pageCache EXCEPT ![b.idx] =
                              BuiltPage([b EXCEPT !.len = items])]
     ELSE /\ builds' = (builds \ {b}) \cup
                         {[b EXCEPT !.phase = "items", !.len = items]}
          /\ UNCHANGED pageCache
  /\ NoCall
  /\ UNCHANGED <<mvars, handling, perPage, preloadAll, items, pageCount,
                 currentPage, renderPc, refetchPc, refetched, calls>>

\* buildPage returned: this.pageCache.set(pageNumber, page)
BuildFinish(b) ==
  /\ b \in builds
  /\ b.phase = "items"
  /\ builds' = builds \ {b}
  /\ pageCache' = [pageCache EXCEPT ![b.idx] = BuiltPage(b)]
  /\ NoCall
  /\ UNCHANGED <<mvars, handling, perPage, preloadAll, items, pageCount, currentPage,
                 renderPc, refetchPc, refetched, calls>>

\* return this.getPage(p) at the end of a navigation call
NavGetPage(p) ==
  /\ Cardinality(builds \cup StartBuilds({p}, pageCache)) <= MaxBuilds
  /\ builds' = builds \cup StartBuilds({p}, pageCache)

\* one more call into the menu
Called ==
  /\ calls < MaxCalls
  /\ calls' = calls + 1

NavFrame ==
  /\ Called
  /\ UNCHANGED <<mvars, handling, perPage, preloadAll, items, pageCount, pageCache, renderPc,
                 refetchPc, refetched>>

\* the range check of goToPage gone wrong: off by one at the upper end
InvalidPageOffByOne(n) == n < 0 \/ n > pageCount

\* goToPage: pageNumber < 0 || pageNumber >= this.pageCount
InvalidPage(n) == n < 0 \/ n >= pageCount

\* goToPage(userId, pageNumber)
GoToPage(u, n) ==
  /\ IF InvalidPage(n)
     THEN /\ last' = Result("goToPage", u, n, "error")
          /\ UNCHANGED <<currentPage, builds>>
     ELSE /\ currentPage' = setCursor(currentPage, u, n)
          /\ NavGetPage(n)
          /\ last' = Result("goToPage", u, n, "page")
  /\ NavFrame

\* the boundary check of nextPage gone wrong: off by one
AtLastPageOffByOne(cur) == cur >= pageCount

\* nextPage: currentPage >= this.pageCount - 1
AtLastPage(cur) == cur >= pageCount - 1

\* nextPage(userId)
NextPage(u) ==
  /\ LET cur == getUserPage(u) IN
     IF AtLastPage(cur)
     THEN /\ last' = Result("nextPage", u, cur, "null")
          /\ UNCHANGED <<currentPage, builds>>
     ELSE /\ currentPage' = setCursor(currentPage, u, cur + 1)
          /\ NavGetPage(cur + 1)
          /\ last' = Result("nextPage", u, cur, "page")
  /\ NavFrame

\* previousPage: currentPage <= 0
AtFirstPage(cur) == cur <= 0

\* previousPage(userId)
PreviousPage(u) ==
  /\ LET cur == getUserPage(u) IN
     IF AtFirstPage(cur)
     THEN /\ last' = Result("previousPage", u, cur, "null")
          /\ UNCHANGED <<currentPage, builds>>
     ELSE /\ currentPage' = setCursor(currentPage, u, cur - 1)
          /\ NavGetPage(cur - 1)
          /\ last' = Result("previousPage", u, cur, "page")
  /\ NavFrame

\* firstPage(userId)
FirstPage(u) ==
  /\ currentPage' = setCursor(currentPage, u, 0)
  /\ NavGetPage(0)
  /\ last' = Result("firstPage", u, getUserPage(u), "page")
  /\ NavFrame

\* lastPage(userId)
LastPage(u) ==
  /\ currentPage' = setCursor(currentPage, u, pageCount - 1)
  /\ NavGetPage(pageCount - 1)
  /\ last' = Result("lastPage", u, getUserPage(u), "page")
  /\ NavFrame

\* renderForUser(userId): the cached page at the user's cursor is handed
\* back as it is; a page that is not cached is built first
RenderForUser(u) ==
  /\ LET p == getUserPage(u) IN
     IF pageCache[p] # NoPage
     THEN /\ last' = Result("renderForUser", u, p, "cached")
          /\ UNCHANGED builds
     ELSE /\ NavGetPage(p)
          /\ last' = Result("renderForUser", u, p, "page")
  /\ UNCHANGED currentPage
  /\ NavFrame

\* a further user opens the shared session: addUserSession with currentPage 0
Attach(u) ==
  /\ currentPage[u] = NoCursor
  /\ currentPage' = [currentPage EXCEPT ![u] = <<0>>]
  /\ Called
  /\ NoCall
  /\ UNCHANGED <<mvars, handling, perPage, preloadAll, items, pageCount, pageCache,
                 builds, renderPc, refetchPc, refetched>>

\* this.items = <fetched>; calculatePageCount(); clearPageCache()
\* fetch hands back the first n entries of the data behind the menu
Refresh(n) ==
  /\ items' = n
  /\ pageCount' = calculatePageCount(n, perPage)
  /\ pageCache' = [p \in PageIdx |-> NoPage]

\* render() up to `await this.definition.fetch(this.params)`
RenderCall ==
  /\ renderPc = "idle"
  /\ renderPc' = "fetch"
  /\ Called
  /\ NoCall
  /\ UNCHANGED <<mvars, handling, perPage, preloadAll, items, pageCount, pageCache,
                 currentPage, builds, refetchPc, refetched>>

\* render() from the resolution of fetch: either preloadAllPages() or
\* getPage(0) is started
RenderFetched(n) ==
  /\ renderPc = "fetch"
  /\ Refresh(n)
  /\ LET new == IF preloadAll
                THEN PreloadBuilds(pageCount')
                ELSE StartBuilds({0}, pageCache')
     IN /\ Cardinality(builds \cup new) <= MaxBuilds
        /\ builds' = builds \cup new
  /\ renderPc' = IF preloadAll THEN "preload" ELSE "page"
  /\ refetched' = "no"
  /\ NoCall
  /\ UNCHANGED <<mvars, handling, perPage, preloadAll, currentPage, refetchPc, calls>>

\* the rejection gone wrong: the cache is cleared before the fetch settles
FetchRejectedCacheCleared ==
  /\ pageCache' = [p \in PageIdx |-> NoPage]
  /\ UNCHANGED <<items, pageCount, currentPage>>

\* `this.items = await this.definition.fetch(this.params)` with a fetch
\* that rejects: the assignment and the statements after it do not run
FetchRejected == UNCHANGED <<items, pageCount, pageCache, currentPage>>

\* render() rejects with the error of definition.fetch
RenderFetchFailed ==
  /\ renderPc = "fetch"
  /\ FetchRejected
  /\ renderPc' = "idle"
  /\ last' = Result("render", "", 0, "throws")
  /\ UNCHANGED <<mvars, handling, perPage, preloadAll, builds, refetchPc, refetched,
                 calls>>

\* the builds of the pages ps that a call awaits have all resolved
NoBuildsFor(ps) == \A b \in builds : b.idx \notin ps

\* render(): preloadAllPages() resolved, return this.getPage(0)
RenderPreloaded ==
  /\ renderPc = "preload"
  /\ NoBuildsFor(PageIdx)
  /\ Cardinality(builds \cup StartBuilds({0}, pageCache)) <= MaxBuilds
  /\ builds' = builds \cup StartBuilds({0}, pageCache)
  /\ renderPc' = "page"
  /\ NoCall
  /\ UNCHANGED <<mvars, handling, perPage, preloadAll, items, pageCount, pageCache,
                 currentPage, refetchPc, refetched, calls>>

\* render() resolved with page 0
RenderDone ==
  /\ renderPc = "page"
  /\ NoBuildsFor({0})
  /\ renderPc' = "idle"
  /\ NoCall
  /\ UNCHANGED <<mvars, handling, perPage, preloadAll, items, pageCount, pageCache,
                 currentPage, builds, refetchPc, refetched, calls>>

\* "Ensure all users' pages are valid" on the cursors cp
ClampCursors(cp, pc) ==
  [u \in Users |->
     IF cp[u] # NoCursor /\ cp[u][1] >= pc THEN <<Max(0, pc - 1)>> ELSE cp[u]]

\* broadcastUpdate(): every viewer's updateUserMessage calls renderForUser
\* (the viewers' messages are known: messageId is set)
BroadcastBuilds(cp, cache) ==
  StartBuilds({cp[u][1] : u \in {v \in Users : cp[v] # NoCursor}}, cache)

\* refetch from the clamping of the cursors to the next await
RefetchRest(cache, pc) ==
  /\ currentPage' = ClampCursors(currentPage, pc)
  /\ LET new == IF preloadAll
                THEN PreloadBuilds(pc)
                ELSE BroadcastBuilds(currentPage', cache)
     IN /\ Cardinality(builds \cup new) <= MaxBuilds
        /\ builds' = builds \cup new
  /\ refetchPc' = IF preloadAll THEN "preload" ELSE "broadcast"

\* refetch(items) up to its first await; a caller that passes no argument
\* leaves items undefined, which `if (items)` takes as false
refetch(refreshItems) ==
  /\ refetchPc = "idle"
  /\ refetched' = IF refreshItems THEN "no" ELSE "pending"
  /\ IF refreshItems
     THEN /\ refetchPc' = "fetch"
          /\ UNCHANGED <<currentPage, builds>>
     ELSE /\ RefetchRest(pageCache, pageCount)
  /\ Called
  /\ UNCHANGED <<mvars, handling, perPage, preloadAll, items, pageCount, pageCache,
                 renderPc>>

\* a direct call of refetch(items)
RefetchCall(refreshItems) ==
  /\ refetch(refreshItems)
  /\ NoCall

\* refetch(true) from the resolution of fetch
RefetchFetched(n) ==
  /\ refetchPc = "fetch"
  /\ Refresh(n)
  /\ RefetchRest(pageCache', pageCount')
  /\ refetched' = "pending"
  /\ NoCall
  /\ UNCHANGED <<mvars, handling, perPage, preloadAll, renderPc, calls>>

\* refetch(true) rejects with the error of definition.fetch
RefetchFetchFailed ==
  /\ refetchPc = "fetch"
  /\ FetchRejected
  /\ refetchPc' = "idle"
  /\ last' = Result("refetch", "", 0, "throws")
  /\ UNCHANGED <<mvars, handling, perPage, preloadAll, builds, renderPc, refetched,
                 calls>>

\* refetch: preloadAllPages() resolved, broadcastUpdate() starts
RefetchPreloaded ==
  /\ refetchPc = "preload"
  /\ NoBuildsFor(PageIdx)
  /\ LET new == BroadcastBuilds(currentPage, pageCache)
     IN /\ Cardinality(builds \cup new) <= MaxBuilds
        /\ builds' = builds \cup new
  /\ refetchPc' = "broadcast"
  /\ NoCall
  /\ UNCHANGED <<mvars, handling, perPage, preloadAll, items, pageCount, pageCache,
                 currentPage, renderPc, refetched, calls>>

\* refetch resolved: every viewer's update was rendered
RefetchDone ==
  /\ refetchPc = "broadcast"
  /\ NoBuildsFor(PageIdx)
  /\ refetchPc' = "idle"
  /\ refetched' = IF refetched = "pending" THEN "yes" ELSE "no"
  /\ NoCall
  /\ UNCHANGED <<mvars, handling, perPage, preloadAll, items, pageCount, pageCache,
                 currentPage, builds, renderPc, calls>>

\* the session right after createSession: constructed, creator attached,
\* nothing fetched yet
PagInit ==
  /\ perPage \in PerPages
  /\ preloadAll \in BOOLEAN
  /\ items = 0
  /\ pageCount = 0
  /\ pageCache = [p \in PageIdx |-> NoPage]
  /\ currentPage = [u \in Users |-> IF u = "u1" THEN <<0>> ELSE NoCursor]
  /\ builds = {}
  /\ renderPc = "idle"
  /\ refetchPc = "idle"
  /\ refetched = "no"
  /\ last = Result("none", "", 0, "")
  /\ calls = 0
  /\ handling = [u \in Users |-> <<>>]

\* the variables of the pagination session play no part in the behaviours
\* of the manager: they are parked
PagIdle ==
  /\ perPage = 0
  /\ preloadAll = 0
  /\ items = 0
  /\ pageCount = 0
  /\ pageCache = 0
  /\ currentPage = 0
  /\ builds = 0
  /\ renderPc = 0
  /\ refetchPc = 0
  /\ refetched = 0
  /\ last = 0
  /\ calls = 0
  /\ handling = 0

(***************************************************************************)
(* Action ids: BaseMenu.parseActionId, transformComponentCustomId          *)
(* (src/src/utils.ts) and PaginationMenu.createNavigationActionId          *)
(***************************************************************************)
\* the context key the session is stored under, and one that no session is
\* stored under (its session was ended or has expired)
SessionId == <<"k", "1">>
StaleId == <<"k", "0">>

\* the user whose createSession call constructed the session
CreatorId == "u1"

\* what parseActionId returns; itemIndex is <<i>>, or <<>> when undefined
Parsed(type, action, itemIndex) ==
  [type |-> type, action |-> action, itemIndex |-> itemIndex]

\* parseActionId returning null
Null == Parsed("null", <<>>, <<>>)

\* parseActionId(action)
parseActionId(action) ==
  IF StartsWith(action, INTERNAL_ACTION_PREFIX)
  THEN Parsed("navigation", Slice(action, Len(INTERNAL_ACTION_PREFIX)), <<>>)
  ELSE IF Includes(action, "|")
  THEN LET actionName == Split(action, "|")[1]
           indexStr == Split(action, "|")[2]
           itemIndex == parseInt(indexStr)
       IN IF itemIndex = NaN THEN Null
          ELSE Parsed("user", actionName, itemIndex)
  ELSE Parsed("user", action, <<>>)

\* createActionId(action), for an action that is not reserved
createActionId(action) ==
  actionPrefix \o <<":">> \o SessionId \o <<":">> \o action

\* createNavigationActionId(action)
createNavigationActionId(action) ==
  actionPrefix \o <<":">> \o SessionId \o <<":">>
    \o INTERNAL_ACTION_PREFIX \o action

\* a component as renderItem hands it back: custom_id is <<id>>, or <<>>
\* for a component without one; components are the nested components
Component(custom_id, components) ==
  [custom_id |-> custom_id, components |-> components]

\* transformComponentCustomId(component, actionPrefix, sessionId,
\* itemActionNames, itemIndex); itemIndex is <<i>>, or <<>> when undefined
RECURSIVE transformComponentCustomId(_, _, _, _, _)
transformComponentCustomId(component, prefix, sessionId, itemActionNames, itemIndex) ==
  [custom_id |->
     IF component.custom_id = <<>> THEN <<>>
     ELSE LET originalId == component.custom_id[1]
              isItemAction == originalId \in itemActionNames
          IN IF isItemAction /\ itemIndex # <<>>
             THEN <<prefix \o <<":">> \o originalId \o <<"|">>
                      \o numberToString(itemIndex[1]) \o <<":">> \o sessionId>>
             ELSE <<prefix \o <<":">> \o originalId \o <<":">> \o sessionId>>,
   components |->
     [i \in DOMAIN component.components |->
        transformComponentCustomId(component.components[i], prefix,
                                   sessionId, itemActionNames, itemIndex)]]

\* the custom ids a component and the components nested in it carry
RECURSIVE CustomIds(_)
CustomIds(component) ==
  (IF component.custom_id = <<>> THEN {} ELSE {component.custom_id[1]})
    \cup UNION {CustomIds(component.components[i]) :
                  i \in DOMAIN component.components}

\* the names renderNavigationControls builds controls for
NavFirst == <<"f", "i", "r", "s", "t">>
NavPrevious == <<"p", "r", "e", "v", "i", "o", "u", "s">>
NavNext == <<"n", "e", "x", "t">>
NavLast == <<"l", "a", "s", "t">>
NavGoto == <<"g", "o", "t", "o">>
NavIndicator == <<"i", "n", "d", "i", "c", "a", "t", "o", "r">>
NavigationNames == {NavFirst, NavPrevious, NavNext, NavLast, NavGoto}

\* a custom id renderItem gives a component that is no action of the menu
ComponentInfo == <<"i", "n", "f", "o">>

\* this.actions of a constructed menu: the keys of the one map of actions
\* the constructor does not throw on
RegisteredActions ==
  CHOOSE m \in ActionMaps : \A a \in m : ~registerActionThrows(a)

\* what renderItem hands back for an item: a button per action name, a
\* button that is no action, and a row that nests two buttons
ItemComponents ==
  {Component(<<a>>, <<>>) : a \in RegisteredActions \cup {ComponentInfo}}
    \cup {Component(<<>>, <<Component(<<ActionBuy>>, <<>>),
                            Component(<<ComponentInfo>>, <<>>)>>)}

\* buildPage: the component of the item with global index gi, transformed
RenderedItem(c, gi) ==
  transformComponentCustomId(c, actionPrefix, SessionId, RegisteredActions,
                             <<gi>>)

\* the custom ids on the pages buildPage builds for up to MaxItems items
RenderedItemIds ==
  UNION {CustomIds(RenderedItem(c, gi)) :
           c \in ItemComponents, gi \in 0..(MaxItems - 1)}

RenderedNavigationIds == {createNavigationActionId(a) : a \in NavigationNames}

\* custom ids that reach the router from elsewhere: components of other
\* consumers, of a session that is gone, and ids that were tampered with
CanonicalId(sessionId, payload) ==
  actionPrefix \o <<":">> \o sessionId \o <<":">> \o payload

ForeignIds ==
  { <<"s", "h", "o", "p">> \o <<":">> \o SessionId \o <<":">>
      \o INTERNAL_ACTION_PREFIX \o NavNext,
    <<"m", "e", "n", "u", "s">> \o <<":">> \o SessionId \o <<":">> \o ActionBuy,
    <<"b", "u", "y">>,
    CanonicalId(StaleId, INTERNAL_ACTION_PREFIX \o NavNext),
    CanonicalId(StaleId, ActionBuy \o <<"|", "0">>),
    actionPrefix \o <<":">> \o SessionId,
    CanonicalId(SessionId, ActionBuy),
    CanonicalId(SessionId, ActionBuy \o <<"|", "1">>),
    CanonicalId(SessionId, ActionBuy \o <<"|", "1", "x">>),
    CanonicalId(SessionId, ActionBuy \o <<"|", "x">>),
    CanonicalId(SessionId, ActionBuy \o <<"|">>),
    CanonicalId(SessionId, <<"z", "a", "p", "|", "0">>),
    CanonicalId(SessionId, INTERNAL_ACTION_PREFIX \o NavIndicator),
    CanonicalId(SessionId, INTERNAL_ACTION_PREFIX \o <<"j", "u", "m", "p">>) }

InboundIds == RenderedItemIds \cup RenderedNavigationIds \cup ForeignIds

\* interaction.values of a string select menu's event
SelectValues == {<<<<"1">>>>, <<<<"9">>>>, <<<<"x">>>>}

\* the inbound events: a button press carries a custom id and no values
\* (<<>>), the page select carries the goto id and the value picked
InboundEvents ==
  {<<id, <<>>>> : id \in InboundIds}
    \cup {<<createNavigationActionId(NavGoto), v>> : v \in SelectValues}

\* interaction.customId.split(":") of each inbound custom id
SplitCustomId == [id \in InboundIds |-> Split(id, ":")]

\* the third segments of the inbound custom ids, and what parseActionId
\* makes of each
InboundPayloads ==
  {SplitCustomId[id][3] : id \in {i \in InboundIds : Len(SplitCustomId[i]) >= 3}}

ParsedPayload == [a \in InboundPayloads |-> parseActionId(a)]

(***************************************************************************)
(* The action router (MenuPlugin.willEmitEvent, src/src/plugin.ts) and     *)
(* PaginationMenu.handleInteraction                                        *)
(***************************************************************************)
\* the permission test gone wrong: whoever sent the event may interact
canInteractAnyone(u) == TRUE

\* canInteract(userId) on this session
canInteractHere(u) ==
  canInteract(ResolveMode(defn), u \in Attached, u = CreatorId)

\* handleInteraction returns null without touching the session
Dropped(u, out) ==
  /\ last' = Result("handleInteraction", u, 0, out)
  /\ UNCHANGED <<currentPage, builds>>
  /\ NavFrame

\* what handleInteraction hands back, or the handler it awaits, for the
\* action `name` on the item with index `item`
ActionResult(out, name, item) ==
  [op |-> "action", out |-> out, name |-> name, item |-> item]

\* handleInteraction up to `await actionHandler({..., item:
\* this.items[parsed.itemIndex], ...})`: the handler is invoked with the
\* item at the index, undefined (hasItem FALSE) when the collection has no
\* such index; one event of a user is handled at a time
ActionCall(u, parsed) ==
  /\ handling[u] = <<>>
  /\ handling' =
       [handling EXCEPT ![u] =
          <<[name |-> parsed.action, item |-> parsed.itemIndex[1],
             hasItem |-> 0 <= parsed.itemIndex[1]
                           /\ parsed.itemIndex[1] < items]>>]
  /\ last' = ActionResult("handler", parsed.action, parsed.itemIndex[1])
  /\ Called
  /\ UNCHANGED <<mvars, perPage, preloadAll, items, pageCount, pageCache,
                 currentPage, builds, renderPc, refetchPc, refetched>>

\* return this.getPageForUser(userId) after the handler of u's event:
\* getPage(p) hands back the cached page when there is one and builds the
\* page otherwise
ActionGetPage(u) ==
  LET p == getUserPage(u)
      h == handling[u][1]
  IN /\ NavGetPage(p)
     /\ last' = ActionResult(IF pageCache[p] # NoPage THEN "cached" ELSE "page",
                             h.name, h.item)

\* the handler awaited for u's event resolved
ActionReturned(u) ==
  /\ handling[u] # <<>>
  /\ handling' = [handling EXCEPT ![u] = <<>>]
  /\ ActionGetPage(u)
  /\ UNCHANGED <<mvars, perPage, preloadAll, items, pageCount, pageCache,
                 currentPage, renderPc, refetchPc, refetched, calls>>

\* the switch over parsed.action of a navigation event
Navigate(u, action, values) ==
  CASE action = NavFirst -> FirstPage(u)
    [] action = NavPrevious -> PreviousPage(u)
    [] action = NavNext -> NextPage(u)
    [] action = NavLast -> LastPage(u)
    [] action = NavGoto ->
         IF values # <<>> /\ parseInt(values[1]) # NaN
         THEN GoToPage(u, parseInt(values[1])[1])
         ELSE Dropped(u, "null")
    [] action = NavIndicator -> Dropped(u, "null")
    [] OTHER -> Dropped(u, "unknown")

\* handleInteraction(interaction by u, actionRaw); actionRaw is <<s>>, or
\* <<>> when the custom id had no third segment (parseActionId then throws
\* on undefined)
handleInteraction(u, actionRaw, values) ==
  IF ~canInteractHere(u) THEN Dropped(u, "denied")
  ELSE IF actionRaw = <<>> THEN Dropped(u, "throws")
  ELSE LET parsed == ParsedPayload[actionRaw[1]] IN
       IF parsed = Null THEN Dropped(u, "unparsed")
       ELSE IF parsed.type = "navigation"
       THEN Navigate(u, parsed.action, values)
       ELSE IF parsed.action \notin RegisteredActions
       THEN Dropped(u, "unknown")
       ELSE IF parsed.itemIndex = <<>> THEN Dropped(u, "noindex")
       ELSE ActionCall(u, parsed)

\* willEmitEvent returns before it looks at the session
RouterReturns(out) ==
  /\ last' = Result("willEmitEvent", "", 0, out)
  /\ UNCHANGED <<currentPage, builds>>
  /\ NavFrame

\* the prefix test gone wrong: any first segment will do
PrefixMatchesAny(prefix) == prefix # <<>>

\* prefix !== this.options.actionPrefix, negated
PrefixMatches(prefix) == prefix = <<actionPrefix>>

\* the session lookup gone wrong: a key that is not in the table falls
\* back to the session at hand
SessionFoundAlways(sessionKey) == TRUE

\* menuManager.getSession(sessionKey) finds the session
SessionFound(sessionKey) == sessionKey = <<SessionId>>

\* willEmitEvent for a button or select-menu interaction by user u with
\* the given customId
willEmitEvent(u, customId, values) ==
  LET parts == SplitCustomId[customId]
      prefix == Element(parts, 1)
      sessionKey == Element(parts, 2)
      action == Element(parts, 3)
  IN IF ~PrefixMatches(prefix) THEN RouterReturns("ignored")
     ELSE IF ~SessionFound(sessionKey) THEN RouterReturns("nosession")
     ELSE handleInteraction(u, action, values)

\* handleMenuUpdate for this session: refresh.items (ri) is "unset", "true"
\* or "false"; unless it is false, refetch() is called without an argument
MenuUpdate(ri) ==
  IF ri # "false"
  THEN /\ refetch(FALSE)
       /\ last' = Result("menuUpdate", "", 0, "refetch")
  ELSE /\ last' = Result("menuUpdate", "", 0, "skipped")
       /\ UNCHANGED <<currentPage, builds, refetchPc, refetched>>
       /\ NavFrame

(***************************************************************************)
(* PaginationMenu.buildNavigationSelectMenu: the page-jump selector        *)
(***************************************************************************)
\* MAX_SELECT_OPTIONS (src/src/constants.ts)
MAX_SELECT_OPTIONS == 25
\* largest pageCount a selector is built for
MaxPageCount == 60

\* the window gone wrong: a window that ends at the last page is not
\* pulled back
buildNavigationSelectMenuShort(pageNumber, pc) ==
  LET start == Max(0, pageNumber - (MAX_SELECT_OPTIONS \div 2))
      end == Min(pc, start + MAX_SELECT_OPTIONS)
  IN [page |-> pageNumber, start |-> start, end |-> end]

\* buildNavigationSelectMenu(pageNumber) with this.pageCount = pc: the
\* options are the pages start..end-1
buildNavigationSelectMenu(pageNumber, pc) ==
  LET start == Max(0, pageNumber - (MAX_SELECT_OPTIONS \div 2))
      end == Min(pc, start + MAX_SELECT_OPTIONS)
  IN [page |-> pageNumber,
      start |-> IF end - start < MAX_SELECT_OPTIONS
                THEN Max(0, end - MAX_SELECT_OPTIONS)
                ELSE start,
      end |-> end]

\* no selector built yet
NoSelect == [page |-> -1, start |-> 0, end |-> 0]

\* renderNavigationControls(pageNumber) of a page of the session builds the
\* selector; it does so when pageCount > 1
SelectMenuBuilt(pageNumber) ==
  /\ pageCount > 1
  /\ pageNumber \in 0..(pageCount - 1)
  /\ last' = buildNavigationSelectMenu(pageNumber, pageCount)
  /\ UNCHANGED <<mvars, perPage, preloadAll, items, pageCount, pageCache,
                 currentPage, builds, renderPc, refetchPc, refetched, calls,
                 handling>>

\* a session with its pages counted; only pageCount and the selector built
\* last play a part
SelectInit ==
  /\ perPage = 0
  /\ preloadAll = 0
  /\ items = 0
  /\ pageCount \in 2..MaxPageCount
  /\ pageCache = 0
  /\ currentPage = 0
  /\ builds = 0
  /\ renderPc = 0
  /\ refetchPc = 0
  /\ refetched = 0
  /\ last = NoSelect
  /\ calls = 0
  /\ handling = 0

(***************************************************************************)
(* Registration of menu definitions                                        *)
(***************************************************************************)
MenuNames == {"shop", "bag"}
\* definition.perPage as the integrator wrote it: absent, or a number
PerPageValues == {<<>>, <<0>>, <<-1>>, <<2>>}
\* the default exports the loader hands to register: the fields the type
\* checker asks for may be absent at run time, and `type` may be neither
\* of the two variants
MenuFiles ==
  {[name |-> n, type |-> "pagination", perPage |-> pp, renderItem |-> ri,
    renderBody |-> FALSE] : n \in MenuNames, pp \in PerPageValues,
                            ri \in BOOLEAN}
  \cup {[name |-> n, type |-> "single", perPage |-> <<>>,
         renderItem |-> FALSE, renderBody |-> rb] : n \in MenuNames,
                                                     rb \in BOOLEAN}
  \cup {[name |-> n, type |-> "other", perPage |-> <<>>,
         renderItem |-> FALSE, renderBody |-> FALSE] : n \in MenuNames}

\* an empty Map<string, MenuDefinition>
NoMenus == [n \in MenuNames |-> <<>>]

\* !perPage: undefined and 0 are falsy, every other number is truthy
Falsy(perPageValue) == perPageValue \in {<<>>, <<0>>}

\* MenuManager.validateMenu: "ok", or the configuration error it throws
validateMenu(menu) ==
  CASE menu.type = "pagination" ->
         IF Falsy(menu.perPage) THEN "must specify perPage"
         ELSE IF ~menu.renderItem THEN "must implement renderItem"
         ELSE "ok"
    [] menu.type = "single" ->
         IF ~menu.renderBody THEN "must implement renderBody" ELSE "ok"
    [] OTHER -> "Unknown menu"

\* what one register call leaves behind: the holder's table, the argument
\* and how the call ended ("stored", "duplicate" after the log line, or
\* "throws")
Registered(holder, menu, table, out) ==
  /\ menus' = [menus EXCEPT ![holder] = table, !.menu = <<menu>>,
                            !.by = holder, !.out = out]
  /\ UNCHANGED <<driver, svars, pvars>>

\* MenuManager.register with a duplicate overwriting the stored definition
registerOverwriting(menu) ==
  LET table == menus.MenuManager IN
  IF validateMenu(menu) # "ok"
  THEN Registered("MenuManager", menu, table, "throws")
  ELSE Registered("MenuManager", menu,
                  [table EXCEPT ![menu.name] = <<menu>>], "stored")

\* MenuManager.register: the duplicate check comes first, then validateMenu,
\* then menus.set
register(menu) ==
  LET table == menus.MenuManager IN
  IF table[menu.name] # <<>>
  THEN Registered("MenuManager", menu, table, "duplicate")
  ELSE IF validateMenu(menu) # "ok"
  THEN Registered("MenuManager", menu, table, "throws")
  ELSE Registered("MenuManager", menu,
                  [table EXCEPT ![menu.name] = <<menu>>], "stored")

\* MenuRegistry.register: the duplicate check, then menus.set
registryRegister(menu) ==
  LET table == menus.MenuRegistry IN
  IF table[menu.name] # <<>>
  THEN Registered("MenuRegistry", menu, table, "duplicate")
  ELSE Registered("MenuRegistry", menu,
                  [table EXCEPT ![menu.name] = <<menu>>], "stored")

RegInit ==
  menus = [MenuManager |-> NoMenus, MenuRegistry |-> NoMenus, menu |-> <<>>,
           by |-> "", out |-> "none"]

\* the registration tables play no part in the other behaviours: parked
RegIdle == menus = 0

(***************************************************************************)
(* MemoryQueueDriver (src/src/menu-queue.ts)                               *)
(***************************************************************************)
\* publish calls in one behaviour; message m is the one of the m-th call
MaxPublish == 3
MsgIds == 1..MaxPublish
Topics == {"menu:update", "other"}
\* the handlers subscribed to "menu:update", in the order of the Set;
\* nothing is subscribed to "other"
QueueHandlers == <<"h1", "h2">>
\* what the call handler(message) does: it returns (a promise that is
\* pending, or a value), or it throws before it returns
Behaviours == [DOMAIN QueueHandlers -> {"returns", "throws"}]

\* this.handlers.get(topic): <<>> stands for undefined
handlersOf(d, topic) ==
  IF topic = "menu:update" /\ ~d.closed THEN QueueHandlers ELSE <<>>

\* the while loop passes over the messages whose topic has no handlers
\* without suspending: what is left of the queue q at the first message
\* that has some
RECURSIVE FirstHandled(_, _)
FirstHandled(d, q) ==
  IF q = <<>> THEN <<>>
  ELSE IF handlersOf(d, d.topic[Head(q)]) = <<>>
  THEN FirstHandled(d, Tail(q))
  ELSE q

\* index of the first handler that throws when it is called, 0 for none
FirstThrower(beh) ==
  IF \A i \in DOMAIN beh : beh[i] = "returns" THEN 0
  ELSE CHOOSE i \in DOMAIN beh :
         /\ beh[i] = "throws"
         /\ \A j \in 1..(i - 1) : beh[j] = "returns"

\* Array.from(handlers).map(handler => Promise.resolve(handler(message))
\* .catch(...)) for message m: the handlers are called one after the other;
\* one that throws ends the map, and with it the loop p that runs it
\* (processing stays as it is); otherwise loop p awaits Promise.all
Dispatch(d, p, m, beh) ==
  LET thrower == FirstThrower(beh)
      called == IF thrower = 0 THEN DOMAIN beh ELSE 1..thrower
  IN [d EXCEPT
        !.calls = [x \in DOMAIN @ |->
                     IF x[1] = m /\ \E i \in called : QueueHandlers[i] = x[2]
                     THEN @[x] + 1 ELSE @[x]],
        !.running = @ \cup {<<m, QueueHandlers[i]>> : i \in called \ {thrower}},
        !.failed = IF thrower = 0 THEN @
                   ELSE @ \cup {<<m, QueueHandlers[thrower]>>},
        !.loops[p] = IF thrower = 0 THEN m ELSE 0]

\* the while loop of processQueue, run by loop p from the top of an
\* iteration to its next await, to the exception that ends it, or to
\* `this.processing = false`
WhileLoop(d, p, beh) ==
  LET q == FirstHandled(d, d.messageQueue)
      passed == {d.messageQueue[i] :
                   i \in 1..(Len(d.messageQueue) - Len(q))}
  IN IF q = <<>>
     THEN [d EXCEPT !.messageQueue = <<>>, !.dequeued = @ \cup passed,
                    !.processing = FALSE, !.loops[p] = 0]
     ELSE Dispatch([d EXCEPT !.messageQueue = Tail(q),
                             !.dequeued = @ \cup passed \cup {Head(q)}],
                   p, Head(q), beh)

\* processQueue(), called by publish p
processQueue(d, p, beh) == WhileLoop([d EXCEPT !.processing = TRUE], p, beh)

\* the message of the next publish call, pushed on the queue
Pushed(topic) ==
  LET m == driver.published + 1 IN
  [driver EXCEPT !.published = m, !.topic[m] = topic,
                 !.messageQueue = Append(@, m),
                 !.behind = IF driver.processing THEN @ \cup {m} ELSE @]

\* publish gone wrong: processQueue is started whatever the flag says
publishUnguarded(topic, beh) ==
  /\ driver.published < MaxPublish
  /\ driver' = processQueue(Pushed(topic), driver.published + 1, beh)
  /\ UNCHANGED <<menus, svars, pvars>>

\* publish(topic, message), by any caller: a handler that is running, or
\* code outside the driver
publish(topic, beh) ==
  /\ driver.published < MaxPublish
  /\ driver' = IF ~driver.processing
               THEN processQueue(Pushed(topic), driver.published + 1, beh)
               ELSE Pushed(topic)
  /\ UNCHANGED <<menus, svars, pvars>>

\* the promise handler h returned for message m settles; a rejection is
\* caught and logged
HandlerSettles(m, h, how) ==
  /\ <<m, h>> \in driver.running
  /\ driver' = [driver EXCEPT
                  !.running = @ \ {<<m, h>>},
                  !.failed = IF how = "rejects" THEN @ \cup {<<m, h>>} ELSE @]
  /\ UNCHANGED <<menus, svars, pvars>>

\* `await Promise.all(...)` of loop p resolved: the next iteration
processQueueResumed(p, beh) ==
  /\ driver.loops[p] # 0
  /\ \A h \in {QueueHandlers[i] : i \in DOMAIN QueueHandlers} :
       <<driver.loops[p], h>> \notin driver.running
  /\ driver' = WhileLoop(driver, p, beh)
  /\ UNCHANGED <<menus, svars, pvars>>

\* close(): handlers.clear(), messageQueue = []
close ==
  /\ ~driver.closed
  /\ driver' = [driver EXCEPT !.closed = TRUE, !.messageQueue = <<>>]
  /\ UNCHANGED <<menus, svars, pvars>>

\* new MemoryQueueDriver() with the handlers subscribed; `behind` are the
\* messages published while the flag was set, `failed` the handler calls
\* that threw or rejected
DriverInit ==
  driver = [messageQueue |-> <<>>, processing |-> FALSE, closed |-> FALSE,
            published |-> 0, topic |-> [m \in MsgIds |-> ""],
            loops |-> [p \in MsgIds |-> 0], dequeued |-> {},
            calls |-> [x \in MsgIds \X {"h1", "h2"} |-> 0],
            running |-> {}, failed |-> {}, behind |-> {}]

\* the driver plays no part in the other behaviours: parked
DriverIdle == driver = 0

(***************************************************************************)
(* Specification of the manager                                            *)
(***************************************************************************)
Init ==
  /\ driver = 0
  /\ menus = 0
  /\ defn \in Definitions
  /\ sessions = [k \in Keys |-> 0]
  /\ sessionTimers = [k \in Keys |-> 0]
  /\ timers = [t \in Objs |-> "idle"]
  /\ objs = [o \in Objs |-> Blank]
  /\ create = [c \in Calls |-> IdleCall]
  /\ ends = [e \in EndCalls |-> IdleEnd]
  /\ navs = 0
  /\ msg = NoMsg
  /\ msgs = 0
  /\ PagIdle

Next ==
  \/ \E c \in Calls, u \in Users, p \in Params : CreateCall(c, u, p)
  \/ \E c \in Calls : CreateStore(c)
  \/ \E c \in Calls : CreateInitFailed(c)
  \/ \E e \in EndCalls, k \in Keys : EndCall(e, k)
  \/ \E t \in Objs, e \in EndCalls : TimerFire(t, e)
  \/ \E e \in EndCalls : EndDestroyed(e)
  \/ \E k \in Keys, u \in Users, page \in NavPages : SetUserPage(k, u, page)

Spec == Init /\ [][Next]_vars

(***************************************************************************)
(* Specification of the manager together with the update queue and the     *)
(* viewers' messages                                                       *)
(***************************************************************************)
NextMsg ==
  \/ Next
  \/ \E k \in Keys, rs \in BOOLEAN : handleMenuUpdate(k, rs)
  \/ MenuUpdateStarted
  \/ \E u \in Users, outcome \in EditOutcomes(TRUE) \cup EditOutcomes(FALSE) :
        updateUserMessage(u, outcome)
  \/ MenuUpdateDone
  \/ \E k \in Keys, u \in Users : updateMessageContext(k, u)

SpecMsg == Init /\ [][NextMsg]_vars

(***************************************************************************)
(* Specification of one pagination session                                 *)
(***************************************************************************)
\* the manager's variables play no part in these behaviours: they are parked
MgrIdle ==
  /\ defn = 0
  /\ sessions = 0
  /\ sessionTimers = 0
  /\ timers = 0
  /\ objs = 0
  /\ create = 0
  /\ ends = 0
  /\ navs = 0
  /\ msg = 0
  /\ msgs = 0

InitPag == DriverIdle /\ RegIdle /\ MgrIdle /\ PagInit

\* navigation reaches the menu through handleInteraction, which lets in
\* only the users canInteract admits: the viewers of the shared session
NextPag ==
  \/ \E b \in builds : BuildCapture(b)
  \/ \E b \in builds : BuildFinish(b)
  \/ \E u \in Attached, n \in PageIdx : GoToPage(u, n)
  \/ \E u \in Attached : NextPage(u)
  \/ \E u \in Attached : PreviousPage(u)
  \/ \E u \in Attached : FirstPage(u)
  \/ \E u \in Attached : LastPage(u)
  \/ \E u \in Attached : RenderForUser(u)
  \/ \E u \in Users : Attach(u)
  \/ RenderCall
  \/ \E n \in 0..MaxItems : RenderFetched(n)
  \/ RenderFetchFailed
  \/ RenderPreloaded
  \/ RenderDone
  \/ \E r \in BOOLEAN : RefetchCall(r)
  \/ \E n \in 0..MaxItems : RefetchFetched(n)
  \/ RefetchFetchFailed
  \/ RefetchPreloaded
  \/ RefetchDone

(***************************************************************************)

SpecPag == InitPag /\ [][NextPag]_vars

(***************************************************************************)
(* Specification of one pagination session driven from outside: UI events  *)
(* come in through the action router, menu:update messages through the     *)
(* queue                                                                   *)
(***************************************************************************)
\* the session was constructed from a definition whose constructor does
\* not throw; its messages play no part, so sessionOptions.ephemeral is
\* left unset; the rest of the manager is parked
InitEvt ==
  /\ driver = 0
  /\ menus = 0
  /\ defn \in {d \in Definitions : ~ConstructorThrows(d) /\ ~d.ephemeral}
  /\ sessions = 0
  /\ sessionTimers = 0
  /\ timers = 0
  /\ objs = 0
  /\ create = 0
  /\ ends = 0
  /\ navs = 0
  /\ msg = 0
  /\ msgs = 0
  /\ PagInit

\* createSession attaches further users in shared mode only
NextEvt ==
  \/ \E b \in builds : BuildCapture(b)
  \/ \E b \in builds : BuildFinish(b)
  \/ \E u \in Users : ResolveMode(defn) = "shared" /\ Attach(u)
  \/ RenderCall
  \/ \E n \in 0..MaxItems : RenderFetched(n)
  \/ RenderFetchFailed
  \/ RenderPreloaded
  \/ RenderDone
  \/ \E u \in Users, ev \in InboundEvents : willEmitEvent(u, ev[1], ev[2])
  \/ \E u \in Users : ActionReturned(u)
  \/ \E ri \in {"unset", "true", "false"} : MenuUpdate(ri)
  \/ RefetchPreloaded
  \/ RefetchDone

SpecEvt == InitEvt /\ [][NextEvt]_vars

(***************************************************************************)
(* Specification of registration: the loader hands definitions to the      *)
(* manager's and to the registry's register                                *)
(***************************************************************************)
InitReg == DriverIdle /\ RegInit /\ MgrIdle /\ PagIdle

NextReg ==
  \/ \E menu \in MenuFiles : register(menu)
  \/ \E menu \in MenuFiles : registryRegister(menu)

SpecReg == InitReg /\ [][NextReg]_vars

(***************************************************************************)
(* Specification of the in-memory queue driver: publishers, the handlers   *)
(* it calls and its processQueue loops                                     *)
(***************************************************************************)
InitDrv == DriverInit /\ RegIdle /\ MgrIdle /\ PagIdle

NextDrv ==
  \/ \E topic \in Topics, beh \in Behaviours : publish(topic, beh)
  \/ \E m \in MsgIds, h \in {"h1", "h2"}, how \in {"resolves", "rejects"} :
       HandlerSettles(m, h, how)
  \/ \E p \in MsgIds, beh \in Behaviours : processQueueResumed(p, beh)
  \/ close

SpecDrv == InitDrv /\ [][NextDrv]_vars

(***************************************************************************)
(* Specification of the page-jump selector: built for any page of a        *)
(* session of any page count                                               *)
(***************************************************************************)
InitSel == DriverIdle /\ RegIdle /\ MgrIdle /\ SelectInit

NextSel == \E pageNumber \in 0..(MaxPageCount - 1) : SelectMenuBuilt(pageNumber)

SpecSel == InitSel /\ [][NextSel]_vars

(***************************************************************************)
(* Helpers for the properties                                              *)
(***************************************************************************)
\* the events whose custom id names another consumer, the ones that name
\* this plugin and no session of the table, and the ones that name the
\* session at hand
ForeignEvents ==
  {ev \in InboundEvents : SplitCustomId[ev[1]][1] # actionPrefix}

StrayEvents ==
  {ev \in InboundEvents \ ForeignEvents :
     Element(SplitCustomId[ev[1]], 2) # <<SessionId>>}

SessionEvents == InboundEvents \ (ForeignEvents \cup StrayEvents)

\* the session's items, page count, cache, cursors, builds in flight and
\* render/refetch positions stay as they are
SessionUnchanged ==
  UNCHANGED <<perPage, preloadAll, items, pageCount, pageCache, currentPage,
              builds, renderPc, refetchPc, refetched, handling>>

\* the users attached to object o
Viewers(o) == {u \in Users : objs[o].userSessions[u] # NoEntry}

\* this step is a createSession invocation in slot c running up to its
\* first await or its return
Invokes(c) ==
  /\ create[c].pc \in {"idle", "done"}
  /\ create'[c] # create[c]

\* the manager's tables and every object are left as they were
ManagerUnchanged ==
  /\ sessions' = sessions
  /\ sessionTimers' = sessionTimers
  /\ timers' = timers
  /\ objs' = objs

(***************************************************************************)
(* C1: in shared mode a createSession that finds a session under the       *)
(* context key returns that very session with the caller attached: a       *)
(* caller who was attached keeps the entry they had (cursor and message    *)
(* id), a new caller gets an entry with cursor 0, and nobody else's entry  *)
(* changes, so two different users end up attached to the same session.    *)
(***************************************************************************)
C1_SharedReuse ==
  [][\A c \in Calls :
       (/\ Invokes(c)
        /\ ResolveMode(defn) = "shared"
        /\ sessions[create'[c].key] # 0)
       => LET u == create'[c].user
              existing == sessions[create'[c].key]
          IN /\ create'[c].pc = "done"
             /\ create'[c].ret = existing
             /\ sessions' = sessions
             /\ objs'[existing].userSessions[u] # NoEntry
             /\ \A v \in Viewers(existing) :
                  objs'[existing].userSessions[v] = objs[existing].userSessions[v]
             /\ \A v \in Users \ {u} : 
                  objs'[existing].userSessions[v] = objs[existing].userSessions[v]
             /\ u \notin Viewers(existing)
                  => objs'[existing].userSessions[u].currentPage = 0
             /\ \A o \in Objs \ {existing} : objs'[o] = objs[o]]_vars

\* u2 attached to the session u1 created, moved to page 1 and opened the
\* menu again: both invocations returned session 1 and the cursor is kept
C1_Witness ==
  /\ ResolveMode(defn) = "shared"
  /\ create[1].outcome = "created" /\ create[1].ret = 1
  /\ create[2].outcome = "reused" /\ create[2].ret = 1
  /\ create[2].user # create[1].user
  /\ sessions[create[2].key] = 1
  /\ Viewers(1) = {create[1].user, create[2].user}
  /\ objs[1].userSessions[create[2].user].currentPage = 1
  /\ objs[1].userSessions[create[1].user].currentPage = 0

C3_EndOnce == \A o \in Objs : objs[o].endCount <= 1

(***************************************************************************)
(* C4: once the callback of the TTL timer armed for a session has run to   *)
(* completion, and no endSession was ever called explicitly, that session  *)
(* is not in the table and onSessionEnd was invoked exactly once for it.   *)
(***************************************************************************)
NoExplicitEnd == \A e \in EndCalls : ends[e].pc # "idle" => ends[e].src # 0

C4_TtlEndsItsSession ==
  \A e \in EndCalls :
    (ends[e].pc = "done" /\ ends[e].src # 0 /\ NoExplicitEnd)
    => /\ sessions[ends[e].key] # ends[e].src
       /\ objs[ends[e].src].endCount = 1

(***************************************************************************)
(* Helpers for the properties of a pagination session                      *)
(***************************************************************************)
\* the cached page p shows the items that page p of the current collection
\* holds
Fresh(p) ==
  PageSlice(p, pageCache[p].len, perPage) = PageSlice(p, items, perPage)

\* every viewer's cursor is a page of the session
CursorsInRange ==
  \A u \in Attached :
    0 <= currentPage[u][1] /\ currentPage[u][1] <= pageCount - 1

\* k is max(1, ceil(n / pp)): the least k >= 1 with room for n items
IsPageCount(k, n, pp) ==
  /\ k >= 1
  /\ k * pp >= n
  /\ k > 1 => (k - 1) * pp < n

(***************************************************************************)
(* C5: once a refetch has resolved, and until something is fetched again,  *)
(* the page renderForUser hands a viewer from the cache shows the items    *)
(* of the collection the refetch left: no page built from an earlier       *)
(* collection is returned.                                                 *)
(***************************************************************************)
C5_RefetchFresh ==
  refetched = "yes"
  => \A u \in Attached :
       pageCache[getUserPage(u)] # NoPage => Fresh(getUserPage(u))

(***************************************************************************)
(* C6: every page in the cache shows the items its page holds in the       *)
(* current collection, also when builds interleave with render and         *)
(* refetch.                                                                *)
(***************************************************************************)
C6_CacheCurrent == \A p \in PageIdx : pageCache[p] # NoPage => Fresh(p)

(***************************************************************************)
(* C7: once the session was rendered and every viewer's cursor is a page   *)
(* of the session, no step (render again, navigation, refetch, attach,     *)
(* page build) takes a cursor out of 0..pageCount-1.                       *)
(***************************************************************************)
C7_CursorStaysInRange ==
  [][(pageCount > 0 /\ CursorsInRange) => CursorsInRange']_vars

(***************************************************************************)
(* C8: goToPage(u, n) with n < 0 or n >= pageCount fails with the          *)
(* invalid-page error and changes no cursor, no cache entry and starts no  *)
(* build; with 0 <= n < pageCount it succeeds, the cursor of u (a viewer)  *)
(* becomes n and nobody else's cursor changes.                             *)
(***************************************************************************)
C8_GoToPage ==
  [][\A u \in Attached, n \in PageIdx :
       (last'.op = "goToPage" /\ GoToPage(u, n))
       => IF n < 0 \/ n >= pageCount
          THEN /\ last' = [op |-> "goToPage", out |-> "error"]
               /\ currentPage' = currentPage
               /\ pageCache' = pageCache
               /\ builds' = builds
          ELSE /\ last' = [op |-> "goToPage", out |-> "page"]
               /\ currentPage'[u] = <<n>>
               /\ \A v \in Users \ {u} : currentPage'[v] = currentPage[v]
               /\ pageCache' = pageCache]_vars

\* u1 went to page 1 of 2 and then asked for a page that does not exist:
\* the call failed and the cursor is still 1
C8_Witness ==
  /\ last = [op |-> "goToPage", out |-> "error"]
  /\ pageCount = 2
  /\ currentPage["u1"] = <<1>>
  /\ calls = 3

(***************************************************************************)
(* C9: for a viewer u, nextPage(u) with the cursor at pageCount-1 (or      *)
(* beyond) and previousPage(u) with the cursor at 0 (or below) return      *)
(* null and change no cursor; otherwise they return a page, move the       *)
(* cursor of u by exactly +1 and -1, and change nobody else's cursor.      *)
(***************************************************************************)
C9_NextPrevious ==
  [][\A u \in Attached :
       LET cur == currentPage[u][1] IN
       /\ (last'.op = "nextPage" /\ NextPage(u))
          => IF cur >= pageCount - 1
             THEN /\ last' = [op |-> "nextPage", out |-> "null"]
                  /\ currentPage' = currentPage
             ELSE /\ last' = [op |-> "nextPage", out |-> "page"]
                  /\ currentPage' = [currentPage EXCEPT ![u] = <<cur + 1>>]
       /\ (last'.op = "previousPage" /\ PreviousPage(u))
          => IF cur <= 0
             THEN /\ last' = [op |-> "previousPage", out |-> "null"]
                  /\ currentPage' = currentPage
             ELSE /\ last' = [op |-> "previousPage", out |-> "page"]
                  /\ currentPage' = [currentPage EXCEPT ![u] = <<cur - 1>>]]_vars

\* u1 moved to the last of 2 pages and asked for the next one: null came
\* back and the cursor is still on the last page
C9_Witness ==
  /\ last = [op |-> "nextPage", out |-> "null"]
  /\ pageCount = 2
  /\ currentPage["u1"] = <<1>>
  /\ calls = 3

(***************************************************************************)
(* C10: when the fetch of render() or of an item-refreshing refetch        *)
(* resolves with n items, pageCount becomes max(1, ceil(n / perPage)), so  *)
(* it is at least 1 also for no items; nothing else changes pageCount.     *)
(***************************************************************************)
C10_PageCount ==
  [][/\ \A n \in 0..MaxItems :
          (/\ renderPc = "fetch" \/ refetchPc = "fetch"
           /\ RenderFetched(n) \/ RefetchFetched(n))
          => items' = n /\ IsPageCount(pageCount', n, perPage)
     /\ pageCount' # pageCount
          => \E n \in 0..MaxItems : RenderFetched(n) \/ RefetchFetched(n)]_vars

\* three items at two per page: two pages
C10_Witness ==
  /\ perPage = 2
  /\ items = 3
  /\ pageCount = 2
  /\ renderPc = "idle"
  /\ refetchPc = "idle"

(***************************************************************************)
(* C13: with a definition whose actions map holds a reserved navigation    *)
(* name, every createSession call fails with the configuration error, and  *)
(* nothing comes of it: no session is stored under any key, no object was  *)
(* initialized (no onSessionStart ran), no viewer is attached and no TTL    *)
(* timer is armed.                                                         *)
(***************************************************************************)
HasReserved(d) == d.actions \cap RESERVED_ACTIONS # {}

C13_ReservedNeverConstructs ==
  HasReserved(defn) =>
    /\ \A c \in Calls : create[c].pc \in {"idle", "done"}
    /\ \A c \in Calls : create[c].pc = "done" => create[c].outcome = "config"
    /\ \A k \in Keys : sessions[k] = 0 /\ sessionTimers[k] = 0
    /\ \A o \in Objs : objs[o] = Blank /\ timers[o] = "idle"

C13_Witness ==
  /\ HasReserved(defn)
  /\ defn.ttl # 0
  /\ \A c \in Calls : create[c].pc = "done" /\ create[c].outcome = "config"

(***************************************************************************)
(* C14: for every constructed session and every user, canInteract is true  *)
(* exactly when the user has a UserSession on it (shared mode), or is its  *)
(* creator (private and locked mode).                                      *)
(***************************************************************************)
C14_CanInteract ==
  \A o \in Objs, u \in Users :
    objs[o] # Blank =>
      canInteract(ResolveMode(defn), hasUserSession(o, u), getCreatorId(o) = u)
        = IF ResolveMode(defn) = "shared"
          THEN hasUserSession(o, u)
          ELSE getCreatorId(o) = u

(***************************************************************************)
(* C16: every session in the table has a UserSession for its creator, and  *)
(* a session whose mode is not shared has no UserSession for anybody else. *)
(***************************************************************************)
C16_CreatorAttached ==
  \A k \in Keys :
    sessions[k] # 0 =>
      /\ hasUserSession(sessions[k], getCreatorId(sessions[k]))
      /\ ResolveMode(defn) # "shared" =>
           Viewers(sessions[k]) \subseteq {getCreatorId(sessions[k])}

(***************************************************************************)
(* C20: a menu:update or menu:close message for a context key that is not  *)
(* in the session table is a miss: the handler resolves without an error,  *)
(* no hook runs (no object changes, so no onSessionStart, onSessionEnd or   *)
(* refetch), and the table, the timers and the other calls stay as they    *)
(* were.                                                                   *)
(***************************************************************************)
C20_QueueMiss ==
  [][ /\ \A k \in Keys, rs \in BOOLEAN :
           (msgs' # msgs /\ sessions[k] = 0 /\ handleMenuUpdate(k, rs))
             => /\ msg'.out = "miss"
                /\ ManagerUnchanged
                /\ create' = create
                /\ ends' = ends
      /\ \A e \in EndCalls, k \in Keys :
           (ends' # ends /\ sessions[k] = 0 /\ EndCall(e, k))
             => /\ ends'[e].pc = "done"
                /\ ends'[e].outcome = "notfound"
                /\ ManagerUnchanged
                /\ create' = create
                /\ msg' = msg ]_vars

\* a session was ended, a menu:close for its key came after that and then
\* a menu:update for it
C20_Witness ==
  /\ msg.out = "miss"
  /\ \E e \in EndCalls : ends[e].outcome = "ended" /\ ends[e].key = msg.key
  /\ \E e \in EndCalls : ends[e].outcome = "notfound" /\ ends[e].key = msg.key

(***************************************************************************)
(* C15: an event that reaches a session from a user canInteract is false   *)
(* for is dropped: handleInteraction returns null at its first test, so no *)
(* handler and no navigation runs, no cursor, item, page count or cached   *)
(* page changes, no page is built or rendered, and nothing is raised.      *)
(***************************************************************************)
C15_DeniedDropped ==
  [][\A u \in Users :
       ( /\ calls' # calls
         /\ ~canInteract(ResolveMode(defn), u \in Attached, u = CreatorId) )
         => \A ev \in SessionEvents :
              willEmitEvent(u, ev[1], ev[2])
                => /\ last' = Result("handleInteraction", u, 0, "denied")
                   /\ SessionUnchanged]_vars

\* a user who may not interact pressed a control of a rendered private
\* session and was turned away
C15_Witness ==
  /\ last = Result("handleInteraction", "", 0, "denied")
  /\ ResolveMode(defn) = "private"
  /\ pageCount > 1
  /\ Users \ Attached # {}

(***************************************************************************)
(* C17: an event whose custom id has a first colon segment other than the  *)
(* action prefix is never claimed: willEmitEvent returns before it looks   *)
(* up a session, calls a handler or accepts the event, and the session     *)
(* stays as it was.                                                        *)
(***************************************************************************)
C17_ForeignPrefixIgnored ==
  [][\A u \in Users, ev \in ForeignEvents :
       (calls' # calls /\ willEmitEvent(u, ev[1], ev[2]))
         => /\ last' = Result("willEmitEvent", "", 0, "ignored")
            /\ SessionUnchanged]_vars

\* an event of another consumer went by a rendered session
C17_Witness ==
  /\ last = Result("willEmitEvent", "", 0, "ignored")
  /\ pageCount > 1

(***************************************************************************)
(* C18: an event whose custom id has the action prefix and a second        *)
(* segment that is no key of the session table is dropped with a warning:  *)
(* no handler runs, the session stays as it was, nothing is raised.        *)
(***************************************************************************)
C18_UnknownSessionDropped ==
  [][\A u \in Users, ev \in StrayEvents :
       (calls' # calls /\ willEmitEvent(u, ev[1], ev[2]))
         => /\ last' = Result("willEmitEvent", "", 0, "nosession")
            /\ SessionUnchanged]_vars

\* an event for a session that is gone reached the router while another
\* session was rendered
C18_Witness ==
  /\ last = Result("willEmitEvent", "", 0, "nosession")
  /\ pageCount > 1
  /\ Attached # {}

(***************************************************************************)
(* C19: a menu:update message for the live session with refresh.items      *)
(* unset or true starts a re-run of fetch (after which the page count is   *)
(* recomputed and the page cache cleared); with refresh.items false the    *)
(* fetch is not re-run and the items stay as they are.                     *)
(***************************************************************************)
C19_UpdateRefetchesItems ==
  [][\A ri \in {"unset", "true", "false"} :
       (last'.op = "menuUpdate" /\ MenuUpdate(ri))
         => IF ri # "false"
            THEN refetchPc' = "fetch"
            ELSE refetchPc' = refetchPc /\ items' = items]_vars

(***************************************************************************)
(* C11: the action-id round trip. For every registered (non-reserved)      *)
(* action name a, parseActionId of the payload of createActionId(a) is the *)
(* user action a without an index, and parseActionId of the payload that   *)
(* transformComponentCustomId encodes for a and item index i is the user   *)
(* action a with index i; the payload of createNavigationActionId(n)       *)
(* decodes to the navigation action n; a payload whose index suffix is not *)
(* a number decodes to null.                                               *)
(***************************************************************************)
\* the payload encoded for action a and item index <<i>>, or for a alone
\* when itemIndex is <<>>: the segment of the id that carries the action
EncodedPayload(a, itemIndex) ==
  IF itemIndex = <<>>
  THEN Split(createActionId(a), ":")[3]
  ELSE Split(transformComponentCustomId(Component(<<a>>, <<>>), actionPrefix,
                                        SessionId, defn.actions,
                                        itemIndex).custom_id[1], ":")[2]

\* payloads whose index suffix was tampered with: "buy|1x", "buy|x", "buy|"
TamperedPayloads ==
  {ActionBuy \o <<"|">> \o t : t \in {<<"1", "x">>, <<"x">>, <<>>}}

C11_ActionIdRoundTrip ==
  /\ \A a \in defn.actions :
       /\ parseActionId(EncodedPayload(a, <<>>)) = Parsed("user", a, <<>>)
       /\ \A i \in 0..(MaxItems - 1) :
            parseActionId(EncodedPayload(a, <<i>>)) = Parsed("user", a, <<i>>)
  /\ \A n \in NavigationNames :
       parseActionId(Split(createNavigationActionId(n), ":")[3])
         = Parsed("navigation", n, <<>>)
  /\ \A p \in TamperedPayloads : parseActionId(p) = Null

(***************************************************************************)
(* C12: the id transformComponentCustomId gives the component of a         *)
(* registered action a on the item with global index i is                  *)
(* prefix:sessionId:a|i, and when a user who may interact presses it, the  *)
(* router resolves the session and the handler of a runs with item i.      *)
(***************************************************************************)
C12_RenderedIdsRoute ==
  [][\A u \in Users, a \in RegisteredActions, i \in 0..(MaxItems - 1) :
       LET id == RenderedItem(Component(<<a>>, <<>>), i).custom_id[1] IN
       ( /\ calls' # calls
         /\ canInteract(ResolveMode(defn), u \in Attached, u = CreatorId)
         /\ willEmitEvent(u, id, <<>>) )
         => /\ id = CanonicalId(SessionId, a \o <<"|">> \o numberToString(i))
            /\ last' = ActionResult("handler", a, i)]_vars

(***************************************************************************)
(* C21: an explicit endSession for a key that is not in the session table  *)
(* changes nothing. For a key that is in it, endSession cancels the        *)
(* session's TTL timer and invokes onSessionEnd once on the session; when  *)
(* it completes, the key is in neither the session table nor the timer     *)
(* table and no timer armed for the key is pending.                        *)
(***************************************************************************)
C21_EndSession ==
  [][\A e \in EndCalls :
       LET k == ends'[e].key
           menu == ends'[e].menu
       IN /\ (ends[e].pc = "idle" /\ ends'[e].pc = "done" /\ ends'[e].src = 0)
               => /\ sessions[k] = 0
                  /\ ManagerUnchanged
                  /\ create' = create
          /\ (ends[e].pc = "idle" /\ ends'[e].pc = "destroy")
               => /\ menu = sessions[k]
                  /\ timers'[menu] # "armed"
                  /\ sessionTimers'[k] = 0
                  /\ objs'[menu].endCount = objs[menu].endCount + 1
          /\ (ends[e].pc = "destroy" /\ ends'[e].pc = "done")
               => /\ sessions'[k] = 0
                  /\ sessionTimers'[k] = 0
                  /\ \A t \in Objs :
                       timers'[t] = "armed" => objs'[t].key # k]_vars

(***************************************************************************)
(* C22: in a broadcast, the delivery to an ephemeral viewer whose token    *)
(* has expired removes that viewer's UserSession, edits nothing and raises *)
(* nothing, and leaves the other viewers' entries and pending deliveries   *)
(* as they are; a viewer whose edit goes through has the message edited    *)
(* and keeps the entry, whatever became of the others.                     *)
(***************************************************************************)
C22_ExpiredViewerDropped ==
  [][ /\ \A u \in Users :
           (msg' # msg /\ updateUserMessage(u, "expired"))
             => /\ objs'[msg.menu].userSessions[u] = NoEntry
                /\ msg'.result[u] = "expired"
                /\ ~msg'.raised
                /\ msg'.pending = msg.pending \ {u}
                /\ \A v \in Users \ {u} :
                     /\ objs'[msg.menu].userSessions[v]
                          = objs[msg.menu].userSessions[v]
                     /\ msg'.result[v] = msg.result[v]
      /\ \A u \in Users :
           (msg' # msg /\ updateUserMessage(u, "ok"))
             => /\ msg'.result[u] = "edited"
                /\ msg'.pending = msg.pending \ {u}
                /\ objs' = objs ]_vars

\* a broadcast to two viewers resolved: the token of one had expired, the
\* other's message was edited
C22_Witness ==
  /\ msg.out = "done"
  /\ \E u, v \in Users :
       /\ msg.result[u] = "expired"
       /\ msg.result[v] = "edited"
       /\ objs[msg.menu].userSessions[u] = NoEntry
       /\ objs[msg.menu].userSessions[v] # NoEntry

(***************************************************************************)
(* C23: a delivery whose edit fails because the target no longer exists    *)
(* removes the viewer's UserSession and raises nothing; a delivery that    *)
(* fails with any other error leaves the entry in place and the error      *)
(* reaches the caller of updateUserMessage / broadcastUpdate.              *)
(***************************************************************************)
C23_DeliveryErrors ==
  [][\A u \in Users :
       /\ (msg' # msg /\ updateUserMessage(u, "gone"))
            => /\ objs'[msg.menu].userSessions[u] = NoEntry
               /\ msg'.raised = msg.raised
       /\ (msg' # msg /\ updateUserMessage(u, "error"))
            => /\ objs' = objs
               /\ msg'.raised ]_vars

(***************************************************************************)
(* C24: when definition.fetch raises during render() or refetch, the call  *)
(* rejects with that error, and neither its start nor its rejection        *)
(* changes the items, the page count, the page cache or any viewer's       *)
(* cursor.                                                                 *)
(***************************************************************************)
C24_FetchFailureLeavesState ==
  [][ /\ ( \/ renderPc = "fetch" /\ renderPc' = "idle"
           \/ refetchPc = "fetch" /\ refetchPc' = "idle" )
           => /\ last'.out = "throws"
              /\ last'.op = IF renderPc' # renderPc THEN "render" ELSE "refetch"
              /\ UNCHANGED <<items, pageCount, pageCache, currentPage>>
      /\ ( \/ renderPc = "idle" /\ renderPc' = "fetch"
           \/ refetchPc = "idle" /\ refetchPc' = "fetch" )
           => UNCHANGED <<items, pageCount, pageCache, currentPage>> ]_vars

\* a refetch failed on a session that had been rendered: two pages, one of
\* them cached, and a viewer on the second page
C24_Witness ==
  /\ last = Result("refetch", "", 0, "throws")
  /\ pageCount > 1
  /\ \E p \in PageIdx : pageCache[p] # NoPage
  /\ \E u \in Attached : getUserPage(u) = 1

(***************************************************************************)
(* C25: an event for a registered user action from a user who may interact *)
(* invokes the action's handler once, with the decoded item index, and     *)
(* renders nothing before the handler has resolved; the page handed back   *)
(* once it has resolved is built then: it is no page that was in the cache *)
(* while the handler ran.                                                  *)
(***************************************************************************)
C25_HandlerThenRender ==
  [][\A u \in Users :
       /\ (handling[u] = <<>> /\ handling'[u] # <<>>)
            => /\ last' = ActionResult("handler", handling'[u][1].name,
                                       handling'[u][1].item)
               /\ handling'[u][1].name \in RegisteredActions
               /\ builds' = builds
               /\ pageCache' = pageCache
       /\ (handling[u] # <<>> /\ handling'[u] = <<>>)
            => /\ last' = ActionResult("page", handling[u][1].name,
                                       handling[u][1].item)
               /\ NewBuild(getUserPage(u)) \in builds']_vars

(***************************************************************************)
(* C26: on every page a build hands back, the navigation controls are      *)
(* there exactly when pageCount > 1; first and previous are disabled       *)
(* exactly when the page index is 0; next and last are disabled exactly    *)
(* when the page index is pageCount - 1.                                   *)
(***************************************************************************)
C26_NavigationControls ==
  [][\A b \in builds :
       (b.phase = "items" /\ BuildFinish(b))
         => LET nav == pageCache'[b.idx].nav IN
            /\ (nav # NoControls) = (pageCount > 1)
            /\ nav # NoControls
                 => /\ nav[1].first = (b.idx = 0)
                    /\ nav[1].previous = (b.idx = 0)
                    /\ nav[1].next = (b.idx = pageCount - 1)
                    /\ nav[1].last = (b.idx = pageCount - 1)]_vars

(***************************************************************************)
(* C27: register with a name that is already registered leaves the table   *)
(* as it was, the definition registered first stays the registered one,    *)
(* and the call returns after its log line: no error is raised.            *)
(***************************************************************************)
C27_DuplicateKeepsFirst ==
  [][ LET holder == menus'.by
          menu == menus'.menu[1]
      IN  menus[holder][menu.name] # <<>>
            => /\ menus'[holder] = menus[holder]
               /\ menus'.out = "duplicate" ]_vars

\* a register call that came back as a duplicate, for a definition other
\* than the one stored under the name
C27_Witness ==
  /\ menus.out = "duplicate"
  /\ menus.by = "MenuManager"
  /\ menus.MenuManager[menus.menu[1].name] # <<>>
  /\ menus.MenuManager[menus.menu[1].name] # menus.menu

(***************************************************************************)
(* C28: register rejects with a configuration error, and does not store,   *)
(* a pagination definition without perPage > 0 or without renderItem and   *)
(* a single definition without renderBody; so every definition the tables  *)
(* hold has the fields its variant requires.                               *)
(***************************************************************************)
\* the fields the variant of a definition requires
HasRequiredFields(menu) ==
  \/ /\ menu.type = "pagination"
     /\ menu.perPage # <<>>
     /\ menu.perPage[1] > 0
     /\ menu.renderItem
  \/ /\ menu.type = "single"
     /\ menu.renderBody

C28_RegisteredAreValid ==
  \A holder \in {"MenuManager", "MenuRegistry"}, n \in MenuNames :
    menus[holder][n] # <<>> => HasRequiredFields(menus[holder][n][1])

(***************************************************************************)
(* C29: two createSession calls for the same menu and params that are in   *)
(* flight together work on one session: one object is constructed for the  *)
(* key and onSessionStart is invoked once for it.  (With one object, one   *)
(* store, one timer and one returned session follow.)                      *)
(***************************************************************************)
C29_OverlappingCreates ==
  \A c \in Calls, d \in Calls :
    (/\ c # d
     /\ create[c].pc = "init"
     /\ create[d].pc = "init"
     /\ create[c].key = create[d].key)
      => /\ create[c].menu = create[d].menu
         /\ objs[create[c].menu].startCount = 1

(***************************************************************************)
(* C30: createSession never hands back, and never attaches a viewer to, a  *)
(* session whose teardown has begun: while an endSession is suspended in   *)
(* the session's onSessionEnd, no createSession resolves with that         *)
(* session.                                                                *)
(***************************************************************************)
C30_NoSessionInTeardown ==
  [][\A c \in Calls :
       (/\ create'[c] # create[c]
        /\ create'[c].pc = "done"
        /\ create'[c].ret # 0)
         => \A e \in EndCalls :
              ~(ends[e].pc = "destroy" /\ ends[e].menu = create'[c].ret)]_vars

(***************************************************************************)
(* C31: createSession never replaces a live session.  A call that finds a  *)
(* session stored under the context key settles at once, with that very    *)
(* session or with a failure, whatever the sharing mode; and the table     *)
(* entry of a key that holds a session is never overwritten with another   *)
(* session, nor is its timer entry changed by a createSession.             *)
(***************************************************************************)
C31_LiveSessionKept ==
  [][/\ \A c \in Calls :
          (/\ create'[c] # create[c]
           /\ create[c].pc # "init"
           /\ sessions[create'[c].key] # 0)
            => /\ create'[c].pc = "done"
               /\ create'[c].ret \in {0, sessions[create'[c].key]}
     /\ \A c \in Calls :
          (/\ create[c].pc = "init"
           /\ create'[c].pc = "done"
           /\ sessions[create[c].key] # 0)
            => /\ sessions'[create[c].key] = sessions[create[c].key]
               /\ sessionTimers'[create[c].key] = sessionTimers[create[c].key]
    ]_vars

(***************************************************************************)
(* C32: no TTL timer leaks.  Every armed timer is the one recorded in the  *)
(* timer table under the key of the session it was armed for, and that     *)
(* session is the one the session table holds under the key: an armed      *)
(* timer cannot end another session created under the same key.            *)
(***************************************************************************)
C32_NoLeakedTimer ==
  \A t \in Objs :
    timers[t] = "armed"
      => /\ sessionTimers[objs[t].key] = t
         /\ sessions[objs[t].key] = t

NavigationOps == {"goToPage", "nextPage", "previousPage", "firstPage",
                  "lastPage"}

\* u invokes one of the navigation operations
Navigates(u) ==
  \/ \E n \in PageIdx : GoToPage(u, n)
  \/ NextPage(u)
  \/ PreviousPage(u)
  \/ FirstPage(u)
  \/ LastPage(u)

C34_NavigationFrame ==
  [][\A u \in Users :
       Navigates(u)
         => /\ \A v \in Users \ {u} : currentPage'[v] = currentPage[v]
            /\ items' = items
            /\ pageCount' = pageCount
            /\ perPage' = perPage]_vars

\* a navigation call has moved one viewer's cursor away from the other's
C34_Witness ==
  /\ last.op \in NavigationOps
  /\ last.out = "page"
  /\ \A u \in Users : currentPage[u] # NoCursor
  /\ currentPage["u1"] # currentPage["u2"]

(***************************************************************************)
(* C35: cursor changes never invalidate the page cache.  A navigation call *)
(* leaves the cache as it is and builds no page that is cached; and a page *)
(* once cached stays under its index, unchanged, until a step that clears  *)
(* the whole cache (the fetch of a render or of an item-refreshing         *)
(* refetch).                                                               *)
(***************************************************************************)
C35_CacheKeptAcrossCursors ==
  [][/\ \A u \in Users :
          (Navigates(u) \/ RenderForUser(u))
            => /\ pageCache' = pageCache
               /\ \A b \in builds' \ builds : pageCache[b.idx] = NoPage
     /\ \A p \in DOMAIN pageCache :
          (pageCache[p] # NoPage /\ pageCache'[p] # pageCache[p])
            => \A q \in DOMAIN pageCache : pageCache'[q] = NoPage]_vars

(***************************************************************************)
(* C36: the driver processes the published messages one at a time, in the  *)
(* order they were published: at most one processQueue loop is active at   *)
(* any time, and when the handlers of a message are called every message   *)
(* published before it has left the queue and none of the handlers called  *)
(* for an earlier message is still running; this also when publish is      *)
(* called while a message is being processed.                              *)
(***************************************************************************)
ActiveLoops == {p \in MsgIds : driver.loops[p] # 0}

C36_OneAtATimeInOrder ==
  /\ [](Cardinality(ActiveLoops) <= 1)
  /\ [][\A m \in MsgIds :
          (\E h \in {"h1", "h2"} : driver'.calls[<<m, h>>] > driver.calls[<<m, h>>])
            => /\ \A x \in driver.running : x[1] >= m
               /\ \A earlier \in 1..(m - 1) :
                    \/ earlier \in driver'.dequeued
                    \/ driver'.closed]_vars

\* a message published while another was being processed has been handed
\* to the handlers in its turn, after a handler of the earlier one failed
C36_Witness ==
  \E m \in driver.behind :
    /\ driver.calls[<<m, "h1">>] = 1
    /\ driver.calls[<<m, "h2">>] = 1
    /\ \E x \in driver.failed : x[1] < m

(***************************************************************************)
(* C37: as long as close() is not called, every published message is       *)
(* delivered exactly once to each handler subscribed to its topic: no      *)
(* handler is called twice for a message, a message that left the queue    *)
(* was handed to every handler of its topic (a handler that throws or      *)
(* rejects does not keep it from the others), and while the flag           *)
(* `processing` is set a loop is there to deliver what is queued and to    *)
(* reset the flag once the queue is empty.                                 *)
(***************************************************************************)
C37_DeliveredToEveryHandler ==
  ~driver.closed
    => /\ \A x \in DOMAIN driver.calls : driver.calls[x] <= 1
       /\ \A m \in driver.dequeued, i \in DOMAIN QueueHandlers :
            driver.topic[m] = "menu:update"
              => driver.calls[<<m, QueueHandlers[i]>>] = 1
       /\ driver.processing => ActiveLoops # {}

(***************************************************************************)
(* C38: the page built for index p renders exactly the items whose global  *)
(* index i has i div perPage = p, i.e. the indices from p*perPage up to    *)
(* min(p*perPage + perPage, itemCount); over the pages 0..pageCount-1      *)
(* these slices partition the items: every item is on exactly one page.    *)
(***************************************************************************)
\* the global indices of the page with index p of a collection of len items
OnPage(p, len) == {i \in 0..(len - 1) : i \div perPage = p}

C39_SelectWindow ==
  last # NoSelect
    => /\ 0 <= last.start
       /\ last.start <= last.page
       /\ last.page < last.end
       /\ last.end <= pageCount
       /\ last.end - last.start = Min(25, pageCount)

\* a selector for one of the last pages of a long session: the window was
\* pulled back from the end
C39_Witness ==
  /\ pageCount > 25
  /\ last # NoSelect
  /\ last.end = pageCount
  /\ last.start < last.page - 12
====
